---- MODULE Spec2Model ----
(***************************************************************************)
(* Model of the velib-predictor ingestion pipeline:                        *)
(*   src/src/data/database.py           DatabaseManager (pool, cursors)    *)
(*   src/src/data/collector.py          VelibAPIClient, VelibDataCollector *)
(*   src/src/data/weather_collector.py  OpenMeteoClient, WeatherCollector  *)
(*                                                                         *)
(* Every invocation of an operation is a process that walks through the    *)
(* statements of the operation; invocations interleave between two         *)
(* database round trips.  The database keeps the committed tables and, for *)
(* every pooled connection, the writes of its open transaction.            *)
(***************************************************************************)
EXTENDS Integers, Sequences, FiniteSets, TLC

VARIABLES
    station_information,    \* committed rows of table station_information
    station_status,         \* committed rows of table station_status
    weather_data,           \* committed rows of table weather_data
    latest_station_status,  \* contents of the materialized view
    now,                    \* the latest time a clock has shown
    pool,                   \* idle connections of the ConnectionPool
    txn,                    \* per connection: its open transaction
    op,                     \* per process: the operation it runs
    pc,                     \* per process: its position in the operation
    start_date,             \* per process: weather_collector.py:269, 285-294
    end_date,               \* per process: weather_collector.py:269, 289-296
    fetched,                \* per process: what the API client returned
    collection_time,        \* per process: collector.py:235
    call,                   \* per process: the DatabaseManager call in progress
    conn,                   \* per process: the connection held (database.py:92-94)
    records,                \* per process: params the call has still to execute
    batch,                  \* per process: database.py:187, what is left of the batch
    rows,                   \* per process: what cursor.fetchone()/fetchall() gave
    total_rows,             \* per process: database.py:183, 190, 153
    rows_inserted,          \* per process: collector.py:269
    result,                 \* per process: the value the operation returned
    error,                  \* per process: the exception that left the operation
    already_recorded,       \* history, per process: how its tick stood in the table when it built its records
    added,                  \* history, per process: rows its commit added to the table it writes
    last_current,           \* history, per time: snapshot of the last committed current-weather call
    parser,                 \* the API client's position in parsing a response
    bike_types,             \* collector.py:127: what the loop has still to scan
    scanned,                \* history: the elements of bike_types scanned so far
    num_mechanical,         \* collector.py:128
    num_ebike,              \* collector.py:129
    hourly,                 \* weather_collector.py:171
    i,                      \* weather_collector.py:175
    weather_records,        \* weather_collector.py:172
    closed,                 \* database.py:303-307: the pool has been closed
    ended,                  \* history, per traced connection: what this code issued last before putconn
    reference               \* history, per traced process: the stations of the information feed it fetched

vars == << station_information, station_status, weather_data, latest_station_status,
           now, pool, txn, op, pc, start_date, end_date, fetched, collection_time,
           call, conn, records, batch, rows, total_rows, rows_inserted, result, error,
           already_recorded, added, last_current,
           parser, bike_types, scanned, num_mechanical, num_ebike,
           hourly, i, weather_records, closed, ended, reference >>

\* the state of the API clients' parsers
parser_vars == << parser, bike_types, scanned, num_mechanical, num_ebike,
                 hourly, i, weather_records >>

\* the state of the database, the pool and the invocations
pipeline_vars == << station_information, station_status, weather_data,
                   latest_station_status, now, pool, txn, op, pc, start_date,
                   end_date, fetched, collection_time, call, conn, records, batch,
                   rows, total_rows, rows_inserted, result, error,
                   already_recorded, added, last_current, closed, ended, reference >>

(***************************************************************************)
(* Bounds of the model.                                                    *)
(***************************************************************************)
\* the clock shows 1 .. MaxTime
MaxTime == 2
\* the longest list an API client returns or a caller passes
MaxBatch == 2
\* database.py:30, 56: the pool's max_size
max_conn == 2
\* the largest page_size a caller of execute_many passes
MaxPageSize == 3
\* the longest num_bikes_available_types list of a station
MaxTypes == 3
\* the longest time array of a historical response
MaxHours == 2

\* invocations: each process runs one operation, once
Procs == {"p1", "p2", "p3"}
Conns == 1 .. max_conn
\* database.py:92: conn = None
NoConn == 0
\* weather_collector.py:269: a date argument left out, and SQL NULL for a date
NoDate == -1
Times == 1 .. MaxTime

RECURSIVE SeqsUpTo(_, _)
SeqsUpTo(S, n) == IF n = 0 THEN {<< >>}
                  ELSE SeqsUpTo(S, n - 1) \cup [1 .. n -> S]

Min(S) == CHOOSE x \in S : \A y \in S : x <= y

Set(f, p, v) == [f EXCEPT ![p] = v]

(***************************************************************************)
(* Records of the API clients.  An Optional field is << >> (None) or <<v>>.*)
(***************************************************************************)
\* collector.py:20-28
StationInfo(id, v) ==
    [station_id |-> id,
     station_code |-> IF v = 1 THEN "16107" ELSE "9020",
     name |-> IF v = 1 THEN "Benjamin Godard" ELSE "Toudouze",
     lat |-> 48 + v, lon |-> 2 + v, capacity |-> 10 * v]

\* collector.py:31-42
StationStatus(id, v) ==
    [station_id |-> id,
     num_bikes_available |-> 3 * v,
     num_mechanical |-> 2 * v,
     num_ebike |-> v,
     num_docks_available |-> 7 - v,
     is_installed |-> TRUE,
     is_returning |-> (v = 1),
     is_renting |-> (v = 1),
     last_reported |-> 100 + v]

\* weather_collector.py:16-31
WeatherData(time, v) ==
    [time |-> time,
     temperature |-> 8 + 2 * v,
     apparent_temperature |-> IF v = 1 THEN << 9 >> ELSE << >>,
     precipitation |-> v - 1,
     rain |-> v - 1,
     snowfall |-> 0,
     wind_speed |-> IF v = 1 THEN << 15 >> ELSE << >>,
     wind_direction |-> IF v = 1 THEN << 270 >> ELSE << >>,
     wind_gusts |-> IF v = 1 THEN << 30 >> ELSE << >>,
     pressure |-> IF v = 1 THEN << 1013 >> ELSE << >>,
     humidity |-> IF v = 1 THEN << 80 >> ELSE << >>,
     cloud_cover |-> IF v = 1 THEN << 50 >> ELSE << >>,
     weather_code |-> IF v = 1 THEN << 3 >> ELSE << >>]

\* what fetch_station_information can return (collector.py:85-97)
InfoPayloads ==
    SeqsUpTo({StationInfo(1, 1), StationInfo(1, 2), StationInfo(2, 1)}, MaxBatch)

\* what fetch_station_status can return (collector.py:123-149)
StatusPayloads ==
    SeqsUpTo({StationStatus(1, 1), StationStatus(1, 2), StationStatus(2, 1)}, MaxBatch)

\* what fetch_current_weather can return (weather_collector.py:96-117)
CurrentSnapshots == {WeatherData(t, v) : t \in Times, v \in {1, 2}}

\* what fetch_historical_weather can return (weather_collector.py:172-196): an
\* hourly series, its times ascending
HistoricalPayloads ==
    {s \in SeqsUpTo({WeatherData(t, 3) : t \in Times}, MaxBatch) :
        \A k \in 1 .. Len(s) - 1 : s[k].time < s[k + 1].time}

\* what fetch_historical_weather can return when the archive revises its
\* values between two requests (weather_collector.py:172-196)
HistoricalRevisions ==
    {s \in SeqsUpTo({WeatherData(t, v) : t \in Times, v \in {3, 4}}, MaxBatch) :
        \A k \in 1 .. Len(s) - 1 : s[k].time < s[k + 1].time}

\* Python's None and SQL's NULL; a value v that may be None is << v >>
None == << >>

\* Python's {}
EmptyDict == << >>

(***************************************************************************)
(* The database.  A statement runs inside the transaction of a connection; *)
(* the transaction holds its writes until commit.  A write waits while     *)
(* another open transaction holds an uncommitted write of the same key.    *)
(***************************************************************************)
EmptyTxn == [open |-> FALSE, started |-> 0,
             info |-> {}, info_old |-> {}, status |-> {}, status_old |-> {},
             weather |-> {}, weather_old |-> {},
             refreshed |-> FALSE, view |-> {}]

\* psycopg opens the transaction with the first statement of a connection;
\* CURRENT_TIMESTAMP (collector.py:190, 198) is the time the transaction began
Begin(t, ts) == IF t.open THEN t ELSE [t EXCEPT !.open = TRUE, !.started = ts]

\* the statements of the source, by name
InsertStatusQuery == "INSERT INTO station_status ON CONFLICT (time, station_id) DO NOTHING"
UpsertInfoQuery == "INSERT INTO station_information ON CONFLICT (station_id) DO UPDATE"
RefreshQuery == "REFRESH MATERIALIZED VIEW CONCURRENTLY latest_station_status"
UpsertWeatherQuery == "INSERT INTO weather_data ON CONFLICT (time) DO UPDATE"
InsertWeatherQuery == "INSERT INTO weather_data ON CONFLICT (time) DO NOTHING"
MinDateQuery == "SELECT MIN(DATE(time)) as min_date FROM station_status"
CopyStatusQuery == "COPY station_status FROM STDIN"
StatsQuery == "SELECT COUNT(*), MIN(time), MAX(time) FROM station_status WHERE time > NOW() - INTERVAL '24 hours'"

SameStatusKey(r, s) == r.time = s.time /\ r.station_id = s.station_id

\* collector.py:238-251 with DO UPDATE in place of DO NOTHING
InsertStationStatusOverwrite(t, rec, ts) ==
    [txn |-> [Begin(t, ts) EXCEPT
                !.status = {r \in @ : ~SameStatusKey(r, rec)} \cup {rec},
                !.status_old = @ \cup {r \in station_status : SameStatusKey(r, rec)}],
     rowcount |-> 1, rows |-> << >>]

\* collector.py:238-251: a record whose (time, station_id) is already there is dropped
InsertStationStatus(t, rec, ts) ==
    IF \E r \in station_status \cup t.status : SameStatusKey(r, rec)
    THEN [txn |-> Begin(t, ts), rowcount |-> 0, rows |-> << >>]
    ELSE [txn |-> [Begin(t, ts) EXCEPT !.status = @ \cup {rec}],
          rowcount |-> 1, rows |-> << >>]

\* the row an upsert of record s writes in a transaction begun at ts
InfoRow(s, ts) ==
    [station_id |-> s.station_id, station_code |-> s.station_code, name |-> s.name,
     lat |-> s.lat, lon |-> s.lon, capacity |-> s.capacity, updated_at |-> ts]

\* collector.py:185-199 with the conflict clause left out, on a table without key
UpsertStationInformationNoKey(t, s, ts) ==
    [txn |-> [Begin(t, ts) EXCEPT !.info = @ \cup {InfoRow(s, Begin(t, ts).started)}],
     rowcount |-> 1, rows |-> << >>]

\* collector.py:185-199 as an UPDATE: only a station that has a row is written
UpsertStationInformationUpdateOnly(t, s, ts) ==
    IF \E r \in station_information \cup t.info : r.station_id = s.station_id
    THEN [txn |-> [Begin(t, ts) EXCEPT
                     !.info = {r \in @ : r.station_id # s.station_id}
                              \cup {InfoRow(s, Begin(t, ts).started)},
                     !.info_old = @ \cup {r \in station_information :
                                             r.station_id = s.station_id}],
          rowcount |-> 1, rows |-> << >>]
    ELSE [txn |-> Begin(t, ts), rowcount |-> 0, rows |-> << >>]

\* collector.py:185-199: the row of that station_id, if any, is replaced
UpsertStationInformation(t, s, ts) ==
    [txn |-> [Begin(t, ts) EXCEPT
                !.info = {r \in @ : r.station_id # s.station_id}
                         \cup {InfoRow(s, Begin(t, ts).started)},
                !.info_old = @ \cup {r \in station_information :
                                        r.station_id = s.station_id}],
     rowcount |-> 1, rows |-> << >>]

\* weather_collector.py:230-255 with DO NOTHING in place of DO UPDATE
UpsertWeatherIgnore(t, rec, ts) ==
    IF \E r \in weather_data \cup t.weather : r.time = rec.time
    THEN [txn |-> Begin(t, ts), rowcount |-> 0, rows |-> << >>]
    ELSE [txn |-> [Begin(t, ts) EXCEPT !.weather = @ \cup {rec}],
          rowcount |-> 1, rows |-> << >>]

\* weather_collector.py:230-255: the row of that time, if any, is replaced
UpsertWeather(t, rec, ts) ==
    [txn |-> [Begin(t, ts) EXCEPT
                !.weather = {r \in @ : r.time # rec.time} \cup {rec},
                !.weather_old = @ \cup {r \in weather_data : r.time = rec.time}],
     rowcount |-> 1, rows |-> << >>]

\* weather_collector.py:308-321 with DO UPDATE in place of DO NOTHING
InsertWeatherOverwrite(t, rec, ts) ==
    [txn |-> [Begin(t, ts) EXCEPT
                !.weather = {r \in @ : r.time # rec.time} \cup {rec},
                !.weather_old = @ \cup {r \in weather_data : r.time = rec.time}],
     rowcount |-> 1, rows |-> << >>]

\* weather_collector.py:308-321: a record whose time is already there is dropped
InsertWeather(t, rec, ts) ==
    IF \E r \in weather_data \cup t.weather : r.time = rec.time
    THEN [txn |-> Begin(t, ts), rowcount |-> 0, rows |-> << >>]
    ELSE [txn |-> [Begin(t, ts) EXCEPT !.weather = @ \cup {rec}],
          rowcount |-> 1, rows |-> << >>]

\* the view: for every station its row of the latest time
LatestStationStatus(table) ==
    {r \in table : \A s \in table : s.station_id = r.station_id => s.time <= r.time}

\* collector.py:275
RefreshView(t, ts) ==
    [txn |-> [Begin(t, ts) EXCEPT
                !.refreshed = TRUE,
                !.view = LatestStationStatus(station_status \cup t.status)],
     rowcount |-> 0, rows |-> << >>]

\* weather_collector.py:286: an aggregate gives one row, NULL over no rows
SelectMinDate(t, ts) ==
    LET visible == station_status \cup t.status
    IN [txn |-> Begin(t, ts), rowcount |-> 1,
        rows |-> << [min_date |-> IF visible = {} THEN NoDate
                                  ELSE Min({r.time : r \in visible})] >>]

WeatherStatsQuery == "SELECT COUNT(*), MIN(time), MAX(time) FROM weather_data WHERE time > NOW() - INTERVAL '7 days'"

\* collector.py:299: INTERVAL '24 hours', in ticks of the clock
Day == 1

\* collector.py:298-299: the rows of the trailing 24 hours at time ts
RecentStatus(table, ts) == {r \in table : r.time > ts - Day}

\* collector.py:292-299: aggregates without GROUP BY give one row whatever the
\* rows they range over: counts of 0, NULL for MIN and MAX over no rows
SelectStats(t, ts) ==
    LET recent == RecentStatus(station_status \cup t.status, Begin(t, ts).started)
    IN [txn |-> Begin(t, ts), rowcount |-> 1,
        rows |-> << [stations_with_data |-> Cardinality({r.station_id : r \in recent}),
                     total_records |-> Cardinality(recent),
                     oldest_record |-> IF recent = {} THEN None
                                       ELSE << Min({r.time : r \in recent}) >>,
                     newest_record |-> IF recent = {} THEN None
                                       ELSE << -Min({-r.time : r \in recent}) >>,
                     total_stations |-> Cardinality(station_information \cup t.info)] >>]

\* weather_collector.py:340-349: the aggregates over the weather rows of the
\* trailing seven days, which the clock of the model does not exceed
SelectWeatherStats(t, ts) ==
    LET recent == weather_data \cup t.weather
    IN [txn |-> Begin(t, ts), rowcount |-> 1,
        rows |-> << [total_records |-> Cardinality(recent),
                     oldest_record |-> IF recent = {} THEN None
                                       ELSE << Min({r.time : r \in recent}) >>,
                     newest_record |-> IF recent = {} THEN None
                                       ELSE << -Min({-r.time : r \in recent}) >>] >>]

\* database.py:261-263: every row of values is written
CopyStatus(t, values, ts) ==
    [txn |-> [Begin(t, ts) EXCEPT !.status = @ \cup {values[k] : k \in DOMAIN values}],
     rowcount |-> Len(values), rows |-> << >>]

\* cursor.execute(query, params) in transaction t at time ts: the transaction
\* after it, cursor.rowcount and the rows the cursor holds
Run(query, t, params, ts) ==
    CASE query = InsertStatusQuery -> InsertStationStatus(t, params, ts)
      [] query = UpsertInfoQuery -> UpsertStationInformation(t, params, ts)
      [] query = RefreshQuery -> RefreshView(t, ts)
      [] query = UpsertWeatherQuery -> UpsertWeather(t, params, ts)
      [] query = InsertWeatherQuery -> InsertWeather(t, params, ts)
      [] query = MinDateQuery -> SelectMinDate(t, ts)
      [] query = StatsQuery -> SelectStats(t, ts)
      [] query = WeatherStatsQuery -> SelectWeatherStats(t, ts)
      [] query = CopyStatusQuery -> CopyStatus(t, params, ts)

\* COPY has no conflict clause: a key that is there already, or twice in the
\* input, violates the primary key and the statement can only fail
Violates(query, t, params) ==
    /\ query = CopyStatusQuery
    /\ \/ \E k \in DOMAIN params : \E r \in station_status \cup t.status :
             SameStatusKey(r, params[k])
       \/ \E k, l \in DOMAIN params : k # l /\ SameStatusKey(params[k], params[l])

\* a database that lets a statement go on whatever other transactions hold
NeverBlocked(query, c, params) == FALSE

\* the statement waits for a row (or the view) another open transaction wrote
Blocked(query, c, params) ==
    \E d \in Conns \ {c} :
        CASE query = InsertStatusQuery ->
                 /\ ~\E r \in station_status : SameStatusKey(r, params)
                 /\ \E r \in txn[d].status : SameStatusKey(r, params)
          [] query = CopyStatusQuery ->
                 \E k \in DOMAIN params : \E r \in txn[d].status :
                     SameStatusKey(r, params[k])
          [] query = UpsertInfoQuery ->
                 \E r \in txn[d].info : r.station_id = params.station_id
          [] query = UpsertWeatherQuery ->
                 \E r \in txn[d].weather : r.time = params.time
          [] query = InsertWeatherQuery ->
                 /\ ~\E r \in weather_data : r.time = params.time
                 /\ \E r \in txn[d].weather : r.time = params.time
          [] query = RefreshQuery -> txn[d].refreshed
          [] query = MinDateQuery -> FALSE
          [] query = StatsQuery -> FALSE
          [] query = WeatherStatsQuery -> FALSE

\* conn.commit(): the writes of the transaction become the committed rows, in
\* place of the rows they superseded
CommitInfo(t) == (station_information \ t.info_old) \cup t.info
CommitStatus(t) == (station_status \ t.status_old) \cup t.status
CommitWeather(t) == (weather_data \ t.weather_old) \cup t.weather
CommitView(t) == IF t.refreshed THEN t.view ELSE latest_station_status

(***************************************************************************)
(* DatabaseManager: database.py:79-267.                                    *)
(***************************************************************************)
tables == << station_information, station_status, weather_data, latest_station_status >>

NoCall == [fn |-> "", query |-> "", commit |-> FALSE]

\* execute_many that never commits, whatever commit says
ExecuteManyCallNoCommit(query, commit) ==
    [fn |-> "execute_many", query |-> query, commit |-> FALSE, page_size |-> 1000]

\* database.py:155-161: execute_many(query, params_list, commit=True,
\* page_size=1000)
ExecuteManyCall(query, commit) ==
    [fn |-> "execute_many", query |-> query, commit |-> commit, page_size |-> 1000]
\* execute that never commits, whatever commit says
ExecuteCallNoCommit(query, commit) ==
    [fn |-> "execute", query |-> query, commit |-> FALSE]

\* database.py:133: execute(query, params, commit=True)
ExecuteCall(query, commit) == [fn |-> "execute", query |-> query, commit |-> commit]
\* fetch_one under get_cursor(commit=True)
FetchOneCallCommitting(query) == [fn |-> "fetch_one", query |-> query, commit |-> TRUE]

\* database.py:194, 211: fetch_one runs its query under get_cursor(commit=False)
FetchOneCall(query) == [fn |-> "fetch_one", query |-> query, commit |-> FALSE]
\* database.py:215, 229: fetch_all runs its query under get_cursor(commit=False)
FetchAllCall(query) == [fn |-> "fetch_all", query |-> query, commit |-> FALSE]
\* bulk_insert without its conn.commit()
BulkInsertCallNoCommit == [fn |-> "bulk_insert", query |-> CopyStatusQuery, commit |-> FALSE]

\* database.py:233, 258-265: bulk_insert copies and commits
BulkInsertCall == [fn |-> "bulk_insert", query |-> CopyStatusQuery, commit |-> TRUE]

\* every executed statement counted as one row
AddStatement(total, rowcount) == total + 1

\* database.py:190: total_rows += cursor.rowcount
AddRowcount(total, rowcount) == total + rowcount

\* a finally clause that puts nothing back
PutConnNever(idle, c) == idle

\* a finally clause without its guard: putconn of whatever conn holds
PutConnUnguarded(idle, c) == idle \cup {c}

\* database.py:101-103: finally: if conn: self.pool.putconn(conn)
PutConn(idle, c) == IF c # NoConn THEN idle \cup {c} ELSE idle

\* entering a DatabaseManager call on the given params: get_connection is next
EnterCall(p, c, params) ==
    /\ call' = Set(call, p, c)
    /\ records' = Set(records, p, params)
    /\ total_rows' = Set(total_rows, p, 0)
    /\ pc' = Set(pc, p, "getconn")

\* what this code issues on the connection before it puts it back, when the
\* with-block is left with exception e ("" for none): conn.commit() under
\* commit=True (database.py:124-125, 265), conn.rollback() for a psycopg.Error
\* (database.py:96-98, 126-127), nothing otherwise
EndedBy(commit, e) ==
    IF e = "" THEN (IF commit THEN "commit" ELSE "nothing")
    ELSE IF e = "psycopg.Error" THEN "rollback"
    ELSE "nothing"

\* the history of a traced connection c goes on with how
Traced(history, c, how) ==
    [d \in DOMAIN history |-> IF d = c THEN how ELSE history[d]]

\* database.py:94: self.pool.getconn() hands out an idle connection
GetConn(p) ==
    /\ pc[p] = "getconn"
    /\ pool # {}
    /\ conn' = Set(conn, p, Min(pool))
    /\ pool' = pool \ {Min(pool)}
    /\ pc' = Set(pc, p, "exec")
    /\ UNCHANGED << tables, now, txn, op, start_date, end_date, fetched,
                    collection_time, call, records, rows, total_rows, rows_inserted,
                    result, error, already_recorded, added, last_current, batch, parser_vars, closed, ended, reference >>

\* database.py:94-103: every connection is checked out and none came back within
\* the pool's wait: getconn raises PoolTimeout, a psycopg.Error, while conn is None
PoolTimeout(p) ==
    /\ pc[p] = "getconn"
    /\ pool = {}
    /\ pool' = PutConn(pool, conn[p])
    /\ pc' = Set(pc, p, "raised")
    /\ error' = Set(error, p, "PoolTimeout")
    /\ records' = Set(records, p, << >>)
    /\ fetched' = Set(fetched, p, << >>)
    /\ UNCHANGED << tables, now, txn, op, start_date, end_date, collection_time,
                    call, conn, rows, total_rows, rows_inserted, result,
                    already_recorded, added, last_current, batch, parser_vars, closed, ended, reference >>

\* the times the database clock may show when a statement runs: only a
\* transaction that begins with a statement using CURRENT_TIMESTAMP observes it
ClockAt(query, t) ==
    IF query \in {UpsertInfoQuery, StatsQuery} /\ ~t.open THEN now .. MaxTime ELSE {now}

\* database.py:187: batch = params_list[i : i + page_size], for the params
\* from position i on
Batch(params_list, page_size) ==
    SubSeq(params_list, 1, IF page_size < Len(params_list) THEN page_size
                           ELSE Len(params_list))

\* range(0, len(params_list), page_size + 1): a step that is one too long
AfterBatchSkipping(params_list, page_size) ==
    SubSeq(params_list, page_size + 2, Len(params_list))

\* database.py:186: range(0, len(params_list), page_size) goes on page_size
\* further: the params after the batch
AfterBatch(params_list, page_size) ==
    SubSeq(params_list, page_size + 1, Len(params_list))

\* database.py:186-188: the params in the order the two loops execute them
RECURSIVE ExecutionOrder(_, _)
ExecutionOrder(params_list, page_size) ==
    IF params_list = << >> THEN << >>
    ELSE Batch(params_list, page_size)
             \o ExecutionOrder(AfterBatch(params_list, page_size), page_size)

\* database.py:186-188: execute_many takes the next batch when the last one is
\* used up; the other calls execute their one params
CurrentBatch(p) ==
    IF call[p].fn # "execute_many" THEN records[p]
    ELSE IF batch[p] = << >> THEN Batch(records[p], call[p].page_size)
    ELSE batch[p]

NotBatched(p) ==
    IF call[p].fn # "execute_many" THEN << >>
    ELSE IF batch[p] = << >> THEN AfterBatch(records[p], call[p].page_size)
    ELSE records[p]

\* database.py:152, 186-190, 212-213, 230-231, 261-264: cursor.execute of the
\* next params succeeds; rowcount is added up, fetched rows are kept
Execute(p) ==
    /\ pc[p] = "exec"
    /\ \E ts \in ClockAt(call[p].query, txn[conn[p]]) :
       LET c == conn[p]
           params == Head(CurrentBatch(p))
           r == Run(call[p].query, txn[c], params, ts)
       IN /\ ~Blocked(call[p].query, c, params)
          /\ ~Violates(call[p].query, txn[c], params)
          /\ now' = ts
          /\ txn' = [txn EXCEPT ![c] = r.txn]
          /\ total_rows' = Set(total_rows, p, AddRowcount(total_rows[p], r.rowcount))
          /\ rows' = Set(rows, p, r.rows)
          /\ IF call[p].fn = "execute_many"
             THEN /\ batch' = Set(batch, p, Tail(CurrentBatch(p)))
                  /\ records' = Set(records, p, NotBatched(p))
             ELSE /\ records' = Set(records, p, Tail(records[p]))
                  /\ UNCHANGED batch
          /\ pc' = Set(pc, p, IF Tail(CurrentBatch(p)) = << >> /\ NotBatched(p) = << >>
                              THEN "finish" ELSE "exec")
    /\ UNCHANGED << tables, pool, op, start_date, end_date, fetched, collection_time,
                    call, conn, rows_inserted, result, error, already_recorded,
                    added, last_current, parser_vars, closed, ended, reference >>

\* a get_cursor that commits in its finally clause what the cursor executed
\* before exception e
UnwindCommitting(p, e) ==
    /\ station_information' = CommitInfo(txn[conn[p]])
    /\ station_status' = CommitStatus(txn[conn[p]])
    /\ weather_data' = CommitWeather(txn[conn[p]])
    /\ latest_station_status' = CommitView(txn[conn[p]])
    /\ txn' = [txn EXCEPT ![conn[p]] = EmptyTxn]
    /\ ended' = Traced(ended, conn[p], "commit")
    /\ pool' = PutConn(pool, conn[p])
    /\ conn' = Set(conn, p, NoConn)
    /\ pc' = Set(pc, p, "raised")
    /\ error' = Set(error, p, e)
    /\ fetched' = Set(fetched, p, << >>)
    /\ records' = Set(records, p, << >>)
    /\ batch' = Set(batch, p, << >>)
    /\ rows' = Set(rows, p, << >>)
    /\ total_rows' = Set(total_rows, p, 0)
    /\ UNCHANGED << now, op, start_date, end_date, collection_time, call,
                    rows_inserted, result, already_recorded, added, last_current,
                    parser_vars, closed, reference >>

\* exception e leaves get_cursor and get_connection (database.py:96-103,
\* 126-131): the open transaction is rolled back (by this code for a
\* psycopg.Error, by putconn otherwise), the connection goes back to the pool,
\* and the operation re-raises (collector.py:218-220, 279-281)
Unwind(p, e) ==
    /\ txn' = [txn EXCEPT ![conn[p]] = EmptyTxn]
    /\ ended' = Traced(ended, conn[p], EndedBy(call[p].commit, e))
    /\ pool' = PutConn(pool, conn[p])
    /\ conn' = Set(conn, p, NoConn)
    /\ pc' = Set(pc, p, "raised")
    /\ error' = Set(error, p, e)
    /\ fetched' = Set(fetched, p, << >>)
    /\ records' = Set(records, p, << >>)
    /\ batch' = Set(batch, p, << >>)
    /\ rows' = Set(rows, p, << >>)
    /\ total_rows' = Set(total_rows, p, 0)
    /\ UNCHANGED << tables, now, op, start_date, end_date, collection_time, call,
                    rows_inserted, result, already_recorded, added, last_current,
                    parser_vars, closed, reference >>

\* cursor.execute (or the copy) raises a psycopg.Error
ExecuteDbError(p) ==
    /\ pc[p] = "exec"
    /\ Unwind(p, "psycopg.Error")

\* another exception is raised while the cursor is in use
ExecuteOtherError(p) ==
    /\ pc[p] = "exec"
    /\ Unwind(p, "Exception")

\* conn.commit() raises a psycopg.Error (database.py:125-129, 265)
CommitError(p) ==
    /\ pc[p] = "finish"
    /\ call[p].commit
    /\ Unwind(p, "psycopg.Error")

(***************************************************************************)
(* The operations: records they build, and how they go on after a call.    *)
(***************************************************************************)
\* collector.py:253-267 with datetime.now() read anew for every record
StatusRecordsOwnTime(statuses, time) ==
    [k \in 1 .. Len(statuses) |->
        [time |-> time + k - 1,
         station_id |-> statuses[k].station_id,
         num_bikes_available |-> statuses[k].num_bikes_available,
         num_mechanical |-> statuses[k].num_mechanical,
         num_ebike |-> statuses[k].num_ebike,
         num_docks_available |-> statuses[k].num_docks_available,
         is_installed |-> statuses[k].is_installed,
         is_returning |-> statuses[k].is_returning,
         is_renting |-> statuses[k].is_renting,
         last_reported |-> statuses[k].last_reported]]

\* collector.py:253-267: every record of the batch carries collection_time
StatusRecords(statuses, time) ==
    [k \in 1 .. Len(statuses) |->
        [time |-> time,
         station_id |-> statuses[k].station_id,
         num_bikes_available |-> statuses[k].num_bikes_available,
         num_mechanical |-> statuses[k].num_mechanical,
         num_ebike |-> statuses[k].num_ebike,
         num_docks_available |-> statuses[k].num_docks_available,
         is_installed |-> statuses[k].is_installed,
         is_returning |-> statuses[k].is_returning,
         is_renting |-> statuses[k].is_renting,
         last_reported |-> statuses[k].last_reported]]

\* collector.py:201-211
InfoRecords(stations) ==
    [k \in 1 .. Len(stations) |->
        [station_id |-> stations[k].station_id,
         station_code |-> stations[k].station_code,
         name |-> stations[k].name,
         lat |-> stations[k].lat,
         lon |-> stations[k].lon,
         capacity |-> stations[k].capacity]]

\* collector.py:301-302: fetch_one gives the first row of the cursor or None;
\* dict(result) if result else {}
Dict(fetched_rows) == IF fetched_rows # << >> THEN Head(fetched_rows) ELSE EmptyDict

\* update_station_information returning the number of rows its commit changes
ReturnValueRowsChanged(p, ret) ==
    CASE op[p] = "collect_station_status" -> rows_inserted[p]
      [] op[p] = "update_station_information" ->
             Cardinality(CommitInfo(txn[conn[p]]) \ station_information)
      [] op[p] = "fetch_one" -> rows[p]
      [] op[p] = "fetch_all" -> rows[p]
      [] op[p] = "get_collection_stats" -> Dict(rows[p])
      [] op[p] = "get_weather_stats" -> Dict(rows[p])
      [] OTHER -> ret

\* the value the operation returns once its last database call returned ret:
\* collector.py:216, 277, 302; weather_collector.py:262, 328; database.py:153,
\* 192, 213, 231, 267
ReturnValue(p, ret) ==
    CASE op[p] = "collect_station_status" -> rows_inserted[p]
      [] op[p] = "update_station_information" -> Len(fetched[p])
      [] op[p] = "fetch_one" -> rows[p]
      [] op[p] = "fetch_all" -> rows[p]
      [] op[p] = "get_collection_stats" -> Dict(rows[p])
      [] op[p] = "get_weather_stats" -> Dict(rows[p])
      [] OTHER -> ret

\* the call returned ret: the operation goes on with its next statement
Continue(p, ret) ==
    IF op[p] = "collect_station_status" /\ call[p].query = InsertStatusQuery
    THEN \* collector.py:269-275
         /\ rows_inserted' = Set(rows_inserted, p, ret)
         /\ EnterCall(p, ExecuteCall(RefreshQuery, TRUE), << << >> >>)
         /\ UNCHANGED << result, fetched, start_date, rows >>
    ELSE IF op[p] = "backfill_historical_weather" /\ call[p].query = MinDateQuery
    THEN \* weather_collector.py:286-287: the row is a dict, which is true
         /\ start_date' = Set(start_date, p, rows[p][1].min_date)
         /\ pc' = Set(pc, p, "dates")
         /\ call' = Set(call, p, NoCall)
         /\ rows' = Set(rows, p, << >>)
         /\ total_rows' = Set(total_rows, p, 0)
         /\ UNCHANGED << records, rows_inserted, result, fetched >>
    ELSE /\ pc' = Set(pc, p, "done")
         /\ result' = Set(result, p, ReturnValue(p, ret))
         /\ call' = Set(call, p, NoCall)
         /\ rows' = Set(rows, p, << >>)
         /\ total_rows' = Set(total_rows, p, 0)
         /\ fetched' = Set(fetched, p, << >>)
         /\ UNCHANGED << records, rows_inserted, start_date >>

\* the with-block is left without an exception (database.py:124-125, 130-131,
\* 101-103, 265): commit if asked to, close the cursor, put the connection
\* back (putconn rolls back a transaction that is still open)
Finish(p) ==
    /\ pc[p] = "finish"
    /\ LET c == conn[p]
           t == txn[c]
           q == call[p].query
       IN /\ IF call[p].commit
             THEN /\ station_information' = CommitInfo(t)
                  /\ station_status' = CommitStatus(t)
                  /\ weather_data' = CommitWeather(t)
                  /\ latest_station_status' = CommitView(t)
             ELSE UNCHANGED tables
          /\ txn' = [txn EXCEPT ![c] = EmptyTxn]
          /\ ended' = Traced(ended, c, EndedBy(call[p].commit, ""))
          /\ pool' = PutConn(pool, c)
          /\ conn' = Set(conn, p, NoConn)
          /\ added' =
               IF ~call[p].commit THEN added
               ELSE IF q \in {InsertStatusQuery, CopyStatusQuery}
               THEN Set(added, p, CommitStatus(t) \ station_status)
               ELSE IF q = UpsertInfoQuery
               THEN Set(added, p, CommitInfo(t) \ station_information)
               ELSE IF q \in {UpsertWeatherQuery, InsertWeatherQuery}
               THEN Set(added, p, CommitWeather(t) \ weather_data)
               ELSE added
          /\ last_current' =
               IF call[p].commit /\ q = UpsertWeatherQuery
               THEN [last_current EXCEPT ![fetched[p][1].time] = {fetched[p][1]}]
               ELSE last_current
          /\ Continue(p, total_rows[p])
    /\ UNCHANGED << now, op, end_date, collection_time, error, already_recorded,
                    batch, parser_vars, closed, reference >>

\* an invocation of operation o begins
Start(p, o) ==
    /\ pc[p] = "idle"
    /\ op' = Set(op, p, o)
    /\ pc' = Set(pc, p, "fetch")
    /\ UNCHANGED << tables, now, pool, txn, start_date, end_date, fetched,
                    collection_time, call, conn, records, rows, total_rows,
                    rows_inserted, result, error, already_recorded, added,
                    last_current, batch, parser_vars, closed, ended, reference >>

\* a failed fetch that is tried again: the failure is noted, the operation
\* stays at its fetch
FetchFailsAndRetries(p) ==
    /\ pc[p] = "fetch"
    /\ error[p] = ""
    /\ \E e \in {"RequestException", "KeyError"} : error' = Set(error, p, e)
    /\ UNCHANGED << tables, now, pool, txn, op, pc, start_date, end_date, fetched,
                    collection_time, call, conn, records, rows, total_rows,
                    rows_inserted, result, already_recorded, added, last_current,
                    batch, parser_vars, closed, ended, reference >>

\* the API client raises (requests.RequestException, or KeyError for a payload
\* without the expected keys); the operation logs and re-raises
FetchFails(p) ==
    /\ pc[p] = "fetch"
    /\ pc' = Set(pc, p, "raised")
    /\ \E e \in {"RequestException", "KeyError"} : error' = Set(error, p, e)
    /\ UNCHANGED << tables, now, pool, txn, op, start_date, end_date, fetched,
                    collection_time, call, conn, records, rows, total_rows,
                    rows_inserted, result, already_recorded, added, last_current, batch, parser_vars, closed, ended, reference >>

(***************************************************************************)
(* VelibDataCollector: collector.py:170-281.                               *)
(***************************************************************************)
\* collector.py:182-216: the station list arrives, is upserted, and its length
\* is returned; execute_many returns 0 at once for an empty list
FetchStationInformation(p) ==
    /\ pc[p] = "fetch" /\ op[p] = "update_station_information"
    /\ \E stations \in InfoPayloads :
         /\ reference' = Traced(reference, p, {stations[k].station_id : k \in DOMAIN stations})
         /\ IF stations = << >>
            THEN /\ pc' = Set(pc, p, "done")
                 /\ result' = Set(result, p, Len(stations))
                 /\ UNCHANGED << fetched, call, records, total_rows >>
            ELSE /\ fetched' = Set(fetched, p, stations)
                 /\ EnterCall(p, ExecuteManyCall(UpsertInfoQuery, TRUE), InfoRecords(stations))
                 /\ UNCHANGED result
    /\ UNCHANGED << tables, now, pool, txn, op, start_date, end_date,
                    collection_time, conn, rows, rows_inserted, error,
                    already_recorded, added, last_current, batch, parser_vars, closed, ended >>

\* collector.py:234: the status list arrives
FetchStationStatus(p) ==
    /\ pc[p] = "fetch" /\ op[p] = "collect_station_status"
    /\ \E statuses \in StatusPayloads : fetched' = Set(fetched, p, statuses)
    /\ pc' = Set(pc, p, "clock")
    /\ UNCHANGED << tables, now, pool, txn, op, start_date, end_date,
                    collection_time, call, conn, records, rows, total_rows,
                    rows_inserted, result, error, already_recorded, added,
                    last_current, batch, parser_vars, closed, ended, reference >>

\* how the tick of these records stands in the table: "new" if a key of theirs
\* is not there, else "repeated" if every record is there as it is, else
\* "conflicting" (a key is there with other values)
AlreadyRecorded(recs) ==
    IF \/ recs = << >>
       \/ \E k \in DOMAIN recs : ~\E r \in station_status : SameStatusKey(r, recs[k])
    THEN "new"
    ELSE IF \A k \in DOMAIN recs : recs[k] \in station_status
    THEN "repeated"
    ELSE "conflicting"

\* collector.py:235-269: collection_time = datetime.now(), the records are built
\* and handed to execute_many, which returns 0 at once for an empty list
ReadClock(p) ==
    /\ pc[p] = "clock"
    /\ \E t \in now .. MaxTime :
         /\ now' = t
         /\ collection_time' = Set(collection_time, p, t)
         /\ already_recorded' =
               Set(already_recorded, p, AlreadyRecorded(StatusRecords(fetched[p], t)))
         /\ IF fetched[p] = << >>
            THEN EnterCall(p, ExecuteCall(RefreshQuery, TRUE), << << >> >>)
            ELSE EnterCall(p, ExecuteManyCall(InsertStatusQuery, TRUE),
                           StatusRecords(fetched[p], t))
    /\ fetched' = Set(fetched, p, << >>)
    /\ UNCHANGED << tables, pool, txn, op, start_date, end_date, conn, rows,
                    rows_inserted, result, error, added, last_current, batch, parser_vars, closed, ended, reference >>

\* collector.py:283-302: get_collection_stats asks for the statistics of the
\* trailing 24 hours with fetch_one
GetCollectionStats(p) ==
    /\ pc[p] = "idle"
    /\ op' = Set(op, p, "get_collection_stats")
    /\ EnterCall(p, FetchOneCall(StatsQuery), << << >> >>)
    /\ UNCHANGED << tables, now, pool, txn, start_date, end_date, fetched,
                    collection_time, conn, rows, rows_inserted, result, error,
                    already_recorded, added, last_current, batch, parser_vars, closed, ended, reference >>

(***************************************************************************)
(* WeatherCollector: weather_collector.py:217-332.                         *)
(***************************************************************************)
\* weather_collector.py:227-259: the snapshot arrives and is upserted
FetchCurrentWeather(p) ==
    /\ pc[p] = "fetch" /\ op[p] = "collect_current_weather"
    /\ \E weather \in CurrentSnapshots :
         /\ fetched' = Set(fetched, p, << weather >>)
         /\ EnterCall(p, ExecuteCall(UpsertWeatherQuery, TRUE), << weather >>)
    /\ UNCHANGED << tables, now, pool, txn, op, start_date, end_date,
                    collection_time, conn, rows, rows_inserted, result, error,
                    already_recorded, added, last_current, batch, parser_vars, closed, ended, reference >>

\* weather_collector.py:268-287: the caller gives both dates or leaves them
\* out; without start_date the earliest station data is asked for
StartBackfill(p) ==
    /\ pc[p] = "idle"
    /\ op' = Set(op, p, "backfill_historical_weather")
    /\ \E s \in {NoDate, 1}, e \in {NoDate, MaxTime} :
         /\ start_date' = Set(start_date, p, s)
         /\ end_date' = Set(end_date, p, e)
         /\ IF s = NoDate
            THEN EnterCall(p, FetchOneCall(MinDateQuery), << << >> >>)
            ELSE /\ pc' = Set(pc, p, "dates")
                 /\ UNCHANGED << call, records, total_rows >>
    /\ UNCHANGED << tables, now, pool, txn, fetched, collection_time, conn, rows,
                    rows_inserted, result, error, already_recorded, added,
                    last_current, batch, parser_vars, closed, ended, reference >>

\* weather_collector.py:289-296: end_date defaults to the day before now; a
\* start_date that is still None makes datetime.combine raise TypeError
ResolveDates(p) ==
    /\ pc[p] = "dates"
    /\ IF end_date[p] = NoDate
       THEN \E t \in now .. MaxTime :
               /\ now' = t
               /\ end_date' = Set(end_date, p, t - 1)
       ELSE UNCHANGED << now, end_date >>
    /\ IF start_date[p] = NoDate
       THEN /\ pc' = Set(pc, p, "raised")
            /\ error' = Set(error, p, "TypeError")
       ELSE /\ pc' = Set(pc, p, "fetch")
            /\ UNCHANGED error
    /\ UNCHANGED << tables, pool, txn, op, start_date, fetched, collection_time,
                    call, conn, records, rows, total_rows, rows_inserted, result,
                    already_recorded, added, last_current, batch, parser_vars, closed, ended, reference >>

\* weather_collector.py:301-325: the hourly series of the range arrives (the
\* dates are not used after the request); nothing is written for an empty
\* series, otherwise it is inserted with conflict-ignore
FetchHistoricalFrom(p, payloads) ==
    /\ pc[p] = "fetch" /\ op[p] = "backfill_historical_weather"
    /\ \E series \in payloads :
         IF series = << >>
         THEN /\ pc' = Set(pc, p, "done")
              /\ result' = Set(result, p, 0)
              /\ UNCHANGED << call, records, total_rows >>
         ELSE /\ EnterCall(p, ExecuteManyCall(InsertWeatherQuery, TRUE), series)
              /\ UNCHANGED result
    /\ start_date' = Set(start_date, p, NoDate)
    /\ end_date' = Set(end_date, p, NoDate)
    /\ UNCHANGED << tables, now, pool, txn, op, fetched, collection_time, conn,
                    rows, rows_inserted, error, already_recorded, added,
                    last_current, batch, parser_vars, closed, ended, reference >>

\* the archive answers with the series of HistoricalPayloads
FetchHistoricalWeather(p) == FetchHistoricalFrom(p, HistoricalPayloads)

\* the archive answers with a series of HistoricalRevisions
FetchRevisedWeather(p) == FetchHistoricalFrom(p, HistoricalRevisions)

(***************************************************************************)
(* VelibAPIClient.fetch_station_status: collector.py:124-146.              *)
(* A JSON null is None, a value v is << v >>; a key a dict does not carry   *)
(* maps to None as well, a key it carries to << its value >>.              *)
(***************************************************************************)
\* the elements a num_bikes_available_types list can hold: dicts with or
\* without the keys "mechanical" and "ebike"
BikeTypeElements ==
    [mechanical : {None, << 1 >>, << 2 >>}, ebike : {None, << 1 >>, << 3 >>}]

\* station.get('num_bikes_available_types', []): the lists a station can give,
\* the empty one also for a station without the key
BikeTypeLists == SeqsUpTo(BikeTypeElements, MaxTypes)

\* num_mechanical += bike_type['mechanical']: counts that add up
ScanMechanicalSum(count, bike_type) ==
    IF bike_type.mechanical # None THEN count + bike_type.mechanical[1] ELSE count

\* collector.py:132-133
ScanMechanical(count, bike_type) ==
    IF bike_type.mechanical # None THEN bike_type.mechanical[1] ELSE count

\* collector.py:132-135
ScanEbike(count, bike_type) ==
    IF bike_type.mechanical # None THEN count
    ELSE IF bike_type.ebike # None THEN bike_type.ebike[1]
    ELSE count

\* collector.py:131-135: one pass of the loop over bike_types
ScanBikeType ==
    /\ parser = "bike_types"
    /\ bike_types # << >>
    /\ num_mechanical' = ScanMechanical(num_mechanical, Head(bike_types))
    /\ num_ebike' = ScanEbike(num_ebike, Head(bike_types))
    /\ bike_types' = Tail(bike_types)
    /\ scanned' = Append(scanned, Head(bike_types))
    /\ UNCHANGED << parser, hourly, i, weather_records, pipeline_vars >>

\* collector.py:137-147: the loop is over, the StationStatus is built with the
\* two counts
AppendStatus ==
    /\ parser = "bike_types"
    /\ bike_types = << >>
    /\ parser' = "returned"
    /\ UNCHANGED << bike_types, scanned, num_mechanical, num_ebike, hourly, i,
                    weather_records, pipeline_vars >>

(***************************************************************************)
(* OpenMeteoClient.fetch_historical_weather: weather_collector.py:171-196. *)
(***************************************************************************)
\* the optional arrays of the hourly block (weather_collector.py:181-191)
OptionalArrays ==
    {"apparent_temperature", "precipitation", "rain", "snowfall", "wind_speed_10m",
     "wind_direction_10m", "wind_gusts_10m", "pressure_msl", "relative_humidity_2m",
     "cloud_cover", "weather_code"}

\* the arrays whose values go through "or 0" (weather_collector.py:182-184)
ZeroDefaulted == {"precipitation", "rain", "snowfall"}

HourlyArrays == {"time", "temperature_2m"} \cup OptionalArrays

\* the value response v holds at hour k of an array
Measurement(array, k, v) ==
    CASE array = "time" -> << k >>
      [] array = "temperature_2m" -> << 8 + k + v >>
      [] array \in ZeroDefaulted -> IF v = 1 THEN << k - 1 >> ELSE None
      [] OTHER -> IF v = 1 THEN << 10 * k + v >> ELSE None

\* an hourly block of n hours without the arrays in absent
Hourly(n, absent, v) ==
    [array \in HourlyArrays |->
        IF array \in absent THEN None
        ELSE << [k \in 1 .. n |-> Measurement(array, k, v)] >>]

\* the hourly blocks a response can hold: every optional array there, one of
\* them missing, or all of them missing
HourlyBlocks ==
    {Hourly(n, absent, v) :
        n \in 0 .. MaxHours,
        absent \in {{}} \cup {{array} : array \in OptionalArrays} \cup {OptionalArrays},
        v \in {1, 2}}

\* the default list of hourly.get(array, [0]) and hourly.get(array, [None])
DefaultList(array) == IF array \in ZeroDefaulted THEN << << 0 >> >> ELSE << None >>

\* weather_collector.py:181-191: hourly.get(array, default)
Get(array) == IF hourly[array] = None THEN DefaultList(array) ELSE hourly[array][1]

\* value or 0
OrZero(value) == IF value = None \/ value = << 0 >> THEN 0 ELSE value[1]

\* list[0] whatever the index
AtFirst(list, index) == list[1]

\* list[index]: Python counts from 0
At(list, index) == list[index + 1]

\* weather_collector.py:176-192: the record of index i
HourRecord ==
    [time |-> At(hourly["time"][1], i)[1],
     temperature |-> At(hourly["temperature_2m"][1], i)[1],
     apparent_temperature |-> At(Get("apparent_temperature"), i),
     precipitation |-> OrZero(At(Get("precipitation"), i)),
     rain |-> OrZero(At(Get("rain"), i)),
     snowfall |-> OrZero(At(Get("snowfall"), i)),
     wind_speed |-> At(Get("wind_speed_10m"), i),
     wind_direction |-> At(Get("wind_direction_10m"), i),
     wind_gusts |-> At(Get("wind_gusts_10m"), i),
     pressure |-> At(Get("pressure_msl"), i),
     humidity |-> At(Get("relative_humidity_2m"), i),
     cloud_cover |-> At(Get("cloud_cover"), i),
     weather_code |-> At(Get("weather_code"), i)]

\* list[i] raises IndexError
OutOfRange == \E array \in OptionalArrays : i + 1 > Len(Get(array))

\* weather_collector.py:175-193: one pass of the loop over range(len(time))
ParseHour ==
    /\ parser = "hourly"
    /\ i < Len(hourly["time"][1])
    /\ ~OutOfRange
    /\ weather_records' = Append(weather_records, HourRecord)
    /\ i' = i + 1
    /\ UNCHANGED << parser, hourly, bike_types, scanned, num_mechanical, num_ebike,
                    pipeline_vars >>

\* weather_collector.py:181-191: an index beyond the end of a list raises
\* IndexError, which the client does not catch
ParseHourIndexError ==
    /\ parser = "hourly"
    /\ i < Len(hourly["time"][1])
    /\ OutOfRange
    /\ parser' = "IndexError"
    /\ UNCHANGED << hourly, i, weather_records, bike_types, scanned, num_mechanical,
                    num_ebike, pipeline_vars >>

\* weather_collector.py:195-196: the loop is over, the records are returned
ReturnRecords ==
    /\ parser = "hourly"
    /\ i = Len(hourly["time"][1])
    /\ parser' = "returned"
    /\ UNCHANGED << hourly, i, weather_records, bike_types, scanned, num_mechanical,
                    num_ebike, pipeline_vars >>

\* weather_collector.py:97-109: the value fetch_current_weather gives a field
\* the current block does not hold: current.get(key) or current.get(key, 0)
CurrentDefault(key) == IF key \in ZeroDefaulted THEN 0 ELSE None

(***************************************************************************)
(* The entry points: collector.py:305-327, weather_collector.py:356-374.   *)
(***************************************************************************)
\* the step main() calls after operation o has returned, "" after the last
NextOperation(o) ==
    CASE o = "update_station_information" -> "collect_station_status"
      [] o = "collect_station_status" -> "get_collection_stats"
      [] o = "collect_current_weather" -> "get_weather_stats"
      [] OTHER -> ""

\* the statistics query of an operation
StatsQueryOf(o) == IF o = "get_collection_stats" THEN StatsQuery ELSE WeatherStatsQuery

\* collector.py:312-320, weather_collector.py:364-367: the step has returned
\* and main() calls the next one
NextStep(p) ==
    /\ pc[p] = "done"
    /\ NextOperation(op[p]) # ""
    /\ op' = Set(op, p, NextOperation(op[p]))
    /\ IF NextOperation(op[p]) = "collect_station_status"
       THEN /\ pc' = Set(pc, p, "fetch")
            /\ UNCHANGED << call, records, total_rows >>
       ELSE EnterCall(p, FetchOneCall(StatsQueryOf(NextOperation(op[p]))), << << >> >>)
    /\ UNCHANGED << tables, now, pool, txn, start_date, end_date, fetched,
                    collection_time, conn, rows, rows_inserted, result, error,
                    already_recorded, added, last_current, batch, parser_vars,
                    closed, ended, reference >>

\* db_manager.close() as the last statement of the try block
CloseAfterSuccess(raised) == ~raised

\* collector.py:326-327, weather_collector.py:373-374: finally: db_manager.close()
CloseAfter(raised) == TRUE

\* collector.py:323-327, weather_collector.py:370-374, database.py:303-307:
\* the last step has returned, or a step has raised and main() re-raises;
\* the finally clause closes the pool and its connections
Exit(p) ==
    /\ \/ pc[p] = "done" /\ NextOperation(op[p]) = ""
       \/ pc[p] = "raised"
    /\ closed' = CloseAfter(pc[p] = "raised")
    /\ pool' = IF CloseAfter(pc[p] = "raised") THEN {} ELSE pool
    /\ pc' = Set(pc, p, "exited")
    /\ UNCHANGED << tables, now, txn, op, start_date, end_date, fetched,
                    collection_time, call, conn, records, rows, total_rows,
                    rows_inserted, result, error, already_recorded, added,
                    last_current, batch, parser_vars, ended, reference >>

(***************************************************************************)
(* Direct callers of DatabaseManager: database.py:133-267.                 *)
(***************************************************************************)
\* the parameter lists a direct caller passes to execute_many and bulk_insert:
\* the rows of the first n stations at one time
DirectParams ==
    {StatusRecords([k \in 1 .. n |-> StationStatus(k, 1)], 1) : n \in 0 .. MaxBatch}

\* database.py:133-153: execute(query, params, commit)
CallExecute(p) ==
    /\ pc[p] = "idle"
    /\ op' = Set(op, p, "execute")
    /\ \E commit \in BOOLEAN :
         EnterCall(p, ExecuteCall(RefreshQuery, commit), << << >> >>)
    /\ UNCHANGED << tables, now, pool, txn, start_date, end_date, fetched,
                    collection_time, conn, rows, rows_inserted, result, error,
                    already_recorded, added, last_current, batch, parser_vars, closed, ended, reference >>

\* database.py:155-192: execute_many(query, params_list, commit); an empty
\* params_list returns 0 before the pool is touched
CallExecuteMany(p) ==
    /\ pc[p] = "idle"
    /\ op' = Set(op, p, "execute_many")
    /\ \E params_list \in DirectParams, commit \in BOOLEAN :
         IF params_list = << >>
         THEN /\ pc' = Set(pc, p, "done")
              /\ result' = Set(result, p, 0)
              /\ UNCHANGED << call, records, total_rows >>
         ELSE /\ EnterCall(p, ExecuteManyCall(InsertStatusQuery, commit), params_list)
              /\ UNCHANGED result
    /\ UNCHANGED << tables, now, pool, txn, start_date, end_date, fetched,
                    collection_time, conn, rows, rows_inserted, error,
                    already_recorded, added, last_current, batch, parser_vars, closed, ended, reference >>

\* database.py:155-192: execute_many(query, params_list, page_size=n) with
\* status records, some of them of one key
CallExecuteManyPaged(p) ==
    /\ pc[p] = "idle"
    /\ op' = Set(op, p, "execute_many")
    /\ \E statuses \in StatusPayloads, n \in 1 .. MaxPageSize :
         IF statuses = << >>
         THEN /\ pc' = Set(pc, p, "done")
              /\ result' = Set(result, p, 0)
              /\ UNCHANGED << call, records, total_rows >>
         ELSE /\ EnterCall(p, [ExecuteManyCall(InsertStatusQuery, TRUE)
                                  EXCEPT !.page_size = n],
                           StatusRecords(statuses, 1))
              /\ UNCHANGED result
    /\ UNCHANGED << tables, now, pool, txn, start_date, end_date, fetched,
                    collection_time, conn, rows, rows_inserted, error,
                    already_recorded, added, last_current, batch, parser_vars, closed, ended, reference >>

\* database.py:194-213: fetch_one(query)
CallFetchOne(p) ==
    /\ pc[p] = "idle"
    /\ op' = Set(op, p, "fetch_one")
    /\ EnterCall(p, FetchOneCall(MinDateQuery), << << >> >>)
    /\ UNCHANGED << tables, now, pool, txn, start_date, end_date, fetched,
                    collection_time, conn, rows, rows_inserted, result, error,
                    already_recorded, added, last_current, batch, parser_vars, closed, ended, reference >>

\* database.py:215-231: fetch_all(query)
CallFetchAll(p) ==
    /\ pc[p] = "idle"
    /\ op' = Set(op, p, "fetch_all")
    /\ EnterCall(p, FetchAllCall(MinDateQuery), << << >> >>)
    /\ UNCHANGED << tables, now, pool, txn, start_date, end_date, fetched,
                    collection_time, conn, rows, rows_inserted, result, error,
                    already_recorded, added, last_current, batch, parser_vars, closed, ended, reference >>

\* database.py:233-267: bulk_insert(table, columns, values); empty values
\* return 0 before the pool is touched
CallBulkInsert(p) ==
    /\ pc[p] = "idle"
    /\ op' = Set(op, p, "bulk_insert")
    /\ \E values \in DirectParams :
         IF values = << >>
         THEN /\ pc' = Set(pc, p, "done")
              /\ result' = Set(result, p, 0)
              /\ UNCHANGED << call, records, total_rows >>
         ELSE /\ EnterCall(p, BulkInsertCall, << values >>)
              /\ UNCHANGED result
    /\ UNCHANGED << tables, now, pool, txn, start_date, end_date, fetched,
                    collection_time, conn, rows, rows_inserted, error,
                    already_recorded, added, last_current, batch, parser_vars, closed, ended, reference >>

(***************************************************************************)
(* Specifications.                                                         *)
(***************************************************************************)
\* database.py:61-73 and the schema before any run: empty tables, every
\* connection idle, no invocation begun
Init ==
    /\ station_information = {}
    /\ station_status = {}
    /\ weather_data = {}
    /\ latest_station_status = {}
    /\ now = 1
    /\ pool = Conns
    /\ txn = [c \in Conns |-> EmptyTxn]
    /\ op = [p \in Procs |-> ""]
    /\ pc = [p \in Procs |-> "idle"]
    /\ start_date = [p \in Procs |-> NoDate]
    /\ end_date = [p \in Procs |-> NoDate]
    /\ fetched = [p \in Procs |-> << >>]
    /\ collection_time = [p \in Procs |-> 0]
    /\ call = [p \in Procs |-> NoCall]
    /\ conn = [p \in Procs |-> NoConn]
    /\ records = [p \in Procs |-> << >>]
    /\ batch = [p \in Procs |-> << >>]
    /\ rows = [p \in Procs |-> << >>]
    /\ total_rows = [p \in Procs |-> 0]
    /\ rows_inserted = [p \in Procs |-> 0]
    /\ result = [p \in Procs |-> 0]
    /\ error = [p \in Procs |-> ""]
    /\ already_recorded = [p \in Procs |-> "new"]
    /\ added = [p \in Procs |-> {}]
    /\ last_current = [t \in Times |-> {}]
    /\ parser = "idle"
    /\ bike_types = << >>
    /\ scanned = << >>
    /\ num_mechanical = 0
    /\ num_ebike = 0
    /\ hourly = Hourly(0, {}, 1)
    /\ i = 0
    /\ weather_records = << >>
    /\ closed = FALSE
    /\ ended = << >>
    /\ reference = << >>

\* two invocations at a time: a scheduled run and a retried or overlapping one
Invokers == {"p1", "p2"}

\* the steps of a DatabaseManager call that holds a connection
CallStep(p) ==
    \/ GetConn(p)
    \/ Execute(p)
    \/ ExecuteDbError(p)
    \/ ExecuteOtherError(p)
    \/ CommitError(p)
    \/ Finish(p)

\* collector.py:222-281: invocations of collect_station_status
Next ==
    \E p \in Invokers :
        \/ Start(p, "collect_station_status")
        \/ FetchStationStatus(p)
        \/ FetchFails(p)
        \/ ReadClock(p)
        \/ CallStep(p)

Spec == Init /\ [][Next]_vars

\* collector.py:170-220: invocations of update_station_information
NextInfo ==
    \E p \in Invokers :
        \/ Start(p, "update_station_information")
        \/ FetchStationInformation(p)
        \/ FetchFails(p)
        \/ CallStep(p)

SpecInfo == Init /\ [][NextInfo]_vars

\* the weather collector may find station data of an earlier tick
InitWeather ==
    /\ Init!2 \/ station_status = {StatusRecords(<< StationStatus(1, 1) >>, 1)[1]}
    /\ Init!1 /\ Init!3 /\ Init!4 /\ Init!5 /\ Init!6 /\ Init!7 /\ Init!8
    /\ Init!9 /\ Init!10 /\ Init!11 /\ Init!12 /\ Init!13 /\ Init!14 /\ Init!15
    /\ Init!16 /\ Init!17 /\ Init!18 /\ Init!19 /\ Init!20 /\ Init!21 /\ Init!22
    /\ Init!23 /\ Init!24 /\ Init!25 /\ Init!26 /\ Init!27 /\ Init!28
    /\ Init!29 /\ Init!30 /\ Init!31 /\ Init!32 /\ Init!33 /\ Init!34 /\ Init!35
    /\ Init!36

\* weather_collector.py:217-332: invocations of collect_current_weather and
\* backfill_historical_weather
NextWeather ==
    \E p \in Invokers :
        \/ Start(p, "collect_current_weather")
        \/ FetchCurrentWeather(p)
        \/ StartBackfill(p)
        \/ ResolveDates(p)
        \/ FetchHistoricalWeather(p)
        \/ FetchFails(p)
        \/ CallStep(p)

SpecWeather == InitWeather /\ [][NextWeather]_vars

\* database.py:133-267: callers of the DatabaseManager, one more than the pool
\* has connections
NextDb ==
    \E p \in Procs :
        \/ CallExecute(p)
        \/ CallExecuteMany(p)
        \/ CallFetchOne(p)
        \/ CallFetchAll(p)
        \/ CallBulkInsert(p)
        \/ PoolTimeout(p)
        \/ CallStep(p)

SpecDb == Init /\ [][NextDb]_vars

\* database.py:155-192: callers of execute_many with page sizes of their own
NextPages ==
    \E p \in Invokers :
        \/ CallExecuteManyPaged(p)
        \/ CallStep(p)

SpecPages == Init /\ [][NextPages]_vars

\* collector.py:305-327, weather_collector.py:356-374: main calls the
\* operations from one thread
MainThread == {"p1"}

\* an invocation of any of the four operations
NextOps ==
    \E p \in MainThread :
        \/ \E o \in {"update_station_information", "collect_station_status",
                     "collect_current_weather"} : Start(p, o)
        \/ StartBackfill(p)
        \/ FetchStationInformation(p)
        \/ FetchStationStatus(p)
        \/ ReadClock(p)
        \/ FetchCurrentWeather(p)
        \/ ResolveDates(p)
        \/ FetchHistoricalWeather(p)
        \/ FetchFails(p)
        \/ CallStep(p)

SpecOps == InitWeather /\ [][NextOps]_vars

\* the pipeline before any run
InitPipeline ==
    /\ Init!1 /\ Init!2 /\ Init!3 /\ Init!4 /\ Init!5 /\ Init!6 /\ Init!7 /\ Init!8
    /\ Init!9 /\ Init!10 /\ Init!11 /\ Init!12 /\ Init!13 /\ Init!14 /\ Init!15
    /\ Init!16 /\ Init!17 /\ Init!18 /\ Init!19 /\ Init!20 /\ Init!21 /\ Init!22
    /\ Init!23 /\ Init!24 /\ Init!25 /\ Init!34 /\ Init!35 /\ Init!36

\* collector.py:126-129: fetch_station_status has reached a station of the
\* response
InitBikeTypes ==
    /\ InitPipeline
    /\ parser = "bike_types"
    /\ bike_types \in BikeTypeLists
    /\ scanned = << >>
    /\ num_mechanical = 0
    /\ num_ebike = 0
    /\ Init!31 /\ Init!32 /\ Init!33

NextBikeTypes == ScanBikeType \/ AppendStatus

SpecBikeTypes == InitBikeTypes /\ [][NextBikeTypes]_vars

\* weather_collector.py:171-172: fetch_historical_weather has the hourly block
\* of the response
InitHourly ==
    /\ InitPipeline
    /\ parser = "hourly"
    /\ hourly \in HourlyBlocks
    /\ i = 0
    /\ weather_records = << >>
    /\ Init!27 /\ Init!28 /\ Init!29 /\ Init!30

NextHourly == ParseHour \/ ParseHourIndexError \/ ReturnRecords

SpecHourly == InitHourly /\ [][NextHourly]_vars

\* collector.py:222-302: invocations of collect_station_status and of
\* get_collection_stats
NextStats ==
    \E p \in Invokers :
        \/ Start(p, "collect_station_status")
        \/ FetchStationStatus(p)
        \/ FetchFails(p)
        \/ ReadClock(p)
        \/ GetCollectionStats(p)
        \/ CallStep(p)

SpecStats == InitWeather /\ [][NextStats]_vars

\* the tables an entry point may find: those of earlier runs, every station
\* of station_status known to station_information
InitMain ==
    /\ \/ Init!1 /\ Init!2
       \/ /\ station_information = {InfoRow(StationInfo(1, 1), 1)}
          /\ \/ Init!2
             \/ station_status = {StatusRecords(<< StationStatus(1, 1) >>, 1)[1]}
    /\ Init!3 /\ Init!4 /\ Init!5 /\ Init!6 /\ Init!7 /\ Init!8
    /\ Init!9 /\ Init!10 /\ Init!11 /\ Init!12 /\ Init!13 /\ Init!14 /\ Init!15
    /\ Init!16 /\ Init!17 /\ Init!18 /\ Init!19 /\ Init!20 /\ Init!21 /\ Init!22
    /\ Init!23 /\ Init!24 /\ Init!25 /\ Init!26 /\ Init!27 /\ Init!28
    /\ Init!29 /\ Init!30 /\ Init!31 /\ Init!32 /\ Init!33 /\ Init!34 /\ Init!35
    /\ reference = [p \in MainThread |-> {}]

\* collector.py:305-327, weather_collector.py:356-374: one run of an entry
\* point, with a pool of its own
NextMain ==
    \E p \in MainThread :
        \/ Start(p, "update_station_information")
        \/ Start(p, "collect_current_weather")
        \/ FetchStationInformation(p)
        \/ FetchStationStatus(p)
        \/ ReadClock(p)
        \/ FetchCurrentWeather(p)
        \/ FetchFails(p)
        \/ CallStep(p)
        \/ NextStep(p)
        \/ Exit(p)

SpecMain == InitMain /\ [][NextMain]_vars

\* the pool with the history of its connections kept
InitEnds ==
    /\ Init!1 /\ Init!2 /\ Init!3 /\ Init!4 /\ Init!5 /\ Init!6 /\ Init!7 /\ Init!8
    /\ Init!9 /\ Init!10 /\ Init!11 /\ Init!12 /\ Init!13 /\ Init!14 /\ Init!15
    /\ Init!16 /\ Init!17 /\ Init!18 /\ Init!19 /\ Init!20 /\ Init!21 /\ Init!22
    /\ Init!23 /\ Init!24 /\ Init!25 /\ Init!26 /\ Init!27 /\ Init!28
    /\ Init!29 /\ Init!30 /\ Init!31 /\ Init!32 /\ Init!33 /\ Init!34 /\ Init!36
    /\ ended = [c \in Conns |-> ""]

\* database.py:133-267: two callers of the DatabaseManager
NextEnds ==
    \E p \in Invokers :
        \/ CallExecute(p)
        \/ CallExecuteMany(p)
        \/ CallFetchOne(p)
        \/ CallFetchAll(p)
        \/ CallBulkInsert(p)
        \/ CallStep(p)

SpecEnds == InitEnds /\ [][NextEnds]_vars

\* weather_collector.py:217-332: invocations of collect_current_weather and of
\* backfills over an archive that revises its values
NextPolicies ==
    \E p \in Invokers :
        \/ Start(p, "collect_current_weather")
        \/ FetchCurrentWeather(p)
        \/ StartBackfill(p)
        \/ ResolveDates(p)
        \/ FetchRevisedWeather(p)
        \/ FetchFails(p)
        \/ CallStep(p)

SpecPolicies == InitWeather /\ [][NextPolicies]_vars

(***************************************************************************)
(* Properties of the status collector (under Spec).                        *)
(***************************************************************************)
Collects(p) == op[p] = "collect_station_status"

\* C1: status insert idempotence.  A collect_station_status run whose tick was
\* in station_status already when it built its records (every (time,
\* station_id) of its batch is committed, as after a first run with the same
\* payload and the same collection time) returns 0 and its commit adds no row
\* to station_status.
C1_StatusInsertIdempotent ==
    \A q \in Procs :
        (Collects(q) /\ pc[q] = "done" /\ already_recorded[q] # "new")
            => (result[q] = 0 /\ added[q] = {})

\* a first run stored its tick and a second run of the same tick, with the same
\* rows, has returned 0
C1_Witness ==
    \E p, q \in Procs :
        /\ p # q /\ Collects(p) /\ Collects(q)
        /\ pc[p] = "done" /\ pc[q] = "done"
        /\ collection_time[p] = collection_time[q]
        /\ result[p] > 0 /\ added[p] = station_status
        /\ already_recorded[q] = "repeated" /\ result[q] = 0

\* C7: partial-success hazard.  When collect_station_status has raised out of
\* its view refresh, the rows its insert added are committed in
\* station_status, as many as the insert counted, no value was returned and
\* the exception is the caller's to see.
C7_RefreshFailureKeepsRows ==
    \A p \in Procs :
        (Collects(p) /\ pc[p] = "raised" /\ call[p].query = RefreshQuery)
            => /\ added[p] \subseteq station_status
               /\ Cardinality(added[p]) = rows_inserted[p]
               /\ error[p] # ""
               /\ result[p] = 0
               /\ conn[p] = NoConn

\* the refresh failed after rows were committed, and the view does not show them
C7_Witness ==
    \E p \in Procs :
        /\ Collects(p) /\ pc[p] = "raised" /\ call[p].query = RefreshQuery
        /\ rows_inserted[p] > 0
        /\ added[p] \subseteq station_status
        /\ ~(added[p] \subseteq latest_station_status)
        /\ latest_station_status # LatestStationStatus(station_status)

\* C8: station_status is append-only.  No step of any run removes or changes a
\* committed row of station_status.
C8_StatusAppendOnly == [][station_status \subseteq station_status']_vars

\* a run whose batch carried other values for keys already committed has
\* finished, and more than one run has written
C8_Witness ==
    \E p, q \in Procs :
        /\ p # q /\ Collects(p) /\ Collects(q)
        /\ pc[p] = "done" /\ added[p] # {}
        /\ pc[q] = "done" /\ already_recorded[q] = "conflicting"
        /\ collection_time[p] = collection_time[q]
        /\ added[p] \subseteq station_status

\* C9: one tick, one timestamp.  The collection time of a run is not set before
\* its fetch has returned and the clock was read; from then on every record the
\* run still has to write, every row it has written in its transaction and
\* every row its commit added carries that one time.
C9_OneTickOneTimestamp ==
    \A p \in Procs :
        Collects(p) =>
            /\ pc[p] \in {"idle", "fetch", "clock"} => collection_time[p] = 0
            /\ pc[p] \notin {"idle", "fetch", "clock"} /\ error[p] \notin {"RequestException", "KeyError"}
                   => collection_time[p] \in Times
            /\ call[p].query = InsertStatusQuery =>
                   /\ \A k \in DOMAIN records[p] : records[p][k].time = collection_time[p]
                   /\ \A k \in DOMAIN batch[p] : batch[p][k].time = collection_time[p]
            /\ conn[p] # NoConn =>
                   \A r \in txn[conn[p]].status : r.time = collection_time[p]
            /\ \A r \in added[p] : r.time = collection_time[p]

\* a run has committed a batch of several records
C9_Witness ==
    \E p \in Procs :
        /\ Collects(p) /\ pc[p] = "done"
        /\ Cardinality(added[p]) > 1
        /\ \A r \in added[p] : r.time = collection_time[p]

\* C10: the value a successful collect_station_status returns is the number of
\* rows its commit added to station_status; while the insert runs, the count
\* is the number of rows written in its transaction.
C10_ReturnsRowsAdded ==
    \A p \in Procs :
        Collects(p) =>
            /\ pc[p] = "done" => result[p] = Cardinality(added[p])
            /\ (pc[p] \in {"exec", "finish"} /\ call[p].query = InsertStatusQuery)
                   => total_rows[p] = Cardinality(txn[conn[p]].status)

\* one run has returned 1 for the row it added, another 0 for a tick that was
\* recorded already
C10_Witness ==
    \E p, q \in Procs :
        /\ p # q /\ Collects(p) /\ Collects(q)
        /\ pc[p] = "done" /\ result[p] = 1 /\ Cardinality(added[p]) = 1
        /\ pc[q] = "done" /\ already_recorded[q] # "new" /\ result[q] = 0

(***************************************************************************)
(* Properties of the station-information update (under SpecInfo).          *)
(***************************************************************************)
\* a station_information row without its update timestamp
WithoutUpdatedAt(r) ==
    [station_id |-> r.station_id, station_code |-> r.station_code, name |-> r.name,
     lat |-> r.lat, lon |-> r.lon, capacity |-> r.capacity]

Stations(table) == {WithoutUpdatedAt(r) : r \in table}

\* C4: station-information upsert idempotence.  When update_station_information
\* commits rows that are all in station_information already but for updated_at
\* (a second run with identical upstream data), the commit leaves the number of
\* rows and every station_code, name, lat, lon and capacity unchanged.
C4_InfoUpsertIdempotent ==
    [][\A p \in Procs :
          (/\ op[p] = "update_station_information"
           /\ pc[p] = "finish" /\ pc'[p] = "done"
           /\ Stations(txn[conn[p]].info) \subseteq Stations(station_information))
              => /\ Cardinality(station_information') = Cardinality(station_information)
                 /\ Stations(station_information') = Stations(station_information)]_vars

\* a second run has committed the rows of a first run again, at a later time
C4_Witness ==
    \E p, q \in Procs :
        /\ p # q
        /\ op[p] = "update_station_information" /\ pc[p] = "done"
        /\ op[q] = "update_station_information" /\ pc[q] = "done"
        /\ added[p] # {} /\ added[q] # {} /\ added[p] # added[q]
        /\ Stations(added[p]) = Stations(added[q])
        /\ station_information = added[q]

(***************************************************************************)
(* Properties of the weather collector (under SpecWeather).                *)
(***************************************************************************)
\* C2: weather upsert overwrite.  weather_data never holds two rows of one
\* observation time, and for every time a collect_current_weather call has
\* committed, the row of that time is the snapshot of the last such call.
C2_WeatherUpsertOverwrites ==
    \A T \in Times :
        /\ Cardinality({r \in weather_data : r.time = T}) <= 1
        /\ last_current[T] # {} => {r \in weather_data : r.time = T} = last_current[T]

\* two calls stored different snapshots of one time; the later one is the row
C2_Witness ==
    \E p, q \in Procs : \E T \in Times :
        /\ p # q
        /\ op[p] = "collect_current_weather" /\ pc[p] = "done"
        /\ op[q] = "collect_current_weather" /\ pc[q] = "done"
        /\ added[p] = {WeatherData(T, 1)}
        /\ added[q] = {WeatherData(T, 2)}
        /\ last_current[T] = {WeatherData(T, 2)}
        /\ {r \in weather_data : r.time = T} = {WeatherData(T, 2)}

\* C3: backfill is non-destructive.  The commit of backfill_historical_weather
\* keeps every row of weather_data as it is and adds rows only for times that
\* had no row.
C3_BackfillNonDestructive ==
    [][\A p \in Procs :
          (/\ op[p] = "backfill_historical_weather"
           /\ pc[p] = "finish" /\ pc'[p] = "done")
              => /\ weather_data \subseteq weather_data'
                 /\ \A r \in weather_data' \ weather_data :
                        \A s \in weather_data : s.time # r.time]_vars

\* a backfill has run over hours that current-weather calls had stored, with
\* other values, and every record of it was dropped
C3_Witness ==
    \E p \in Procs :
        /\ op[p] = "backfill_historical_weather"
        /\ pc[p] = "finish" /\ call[p].query = InsertWeatherQuery
        /\ total_rows[p] = 0
        /\ weather_data # {} /\ weather_data \subseteq CurrentSnapshots

(***************************************************************************)
(* Properties of the DatabaseManager (under SpecDb).                       *)
(***************************************************************************)
\* the connections that callers hold
CheckedOut == {conn[p] : p \in Procs} \ {NoConn}

\* C5: no connection is leaked.  A caller that is not inside a DatabaseManager
\* call (it has not called, has returned or has raised) holds no connection,
\* and every connection that no caller holds is idle in the pool.
C5_NoConnectionLeaked ==
    /\ \A p \in Procs : pc[p] \in {"idle", "done", "raised"} => conn[p] = NoConn
    /\ pool = Conns \ CheckedOut

\* calls have ended on every exit path (a return, a database error, another
\* exception) and the pool is whole again
C5_Witness ==
    \E p, q, r \in Procs :
        /\ pc[p] = "done" /\ op[p] = "bulk_insert" /\ result[p] > 0
        /\ pc[q] = "raised" /\ error[q] = "psycopg.Error"
        /\ pc[r] = "raised" /\ error[r] = "Exception"
        /\ pool = Conns

\* C6: pool exhaustion.  At most max_conn connections are checked out, no
\* connection by two callers, and none of them is idle in the pool at the same
\* time; a caller waiting in getconn holds none; the step in which a caller
\* fails with PoolTimeout finds the pool empty and leaves it as it is, and the
\* failed caller holds no connection.
C6_PoolExhaustion ==
    /\ [](/\ pool \subseteq Conns
          /\ pool \cap CheckedOut = {}
          /\ Cardinality(CheckedOut) <= max_conn
          /\ \A p, q \in Procs : (p # q /\ conn[p] # NoConn) => conn[p] # conn[q]
          /\ \A p \in Procs : pc[p] = "getconn" => conn[p] = NoConn
          /\ \A p \in Procs : error[p] = "PoolTimeout" => (pc[p] = "raised" /\ conn[p] = NoConn))
    /\ [][\A p \in Procs :
             (error[p] # "PoolTimeout" /\ error'[p] = "PoolTimeout")
                 => (pool = {} /\ pool' = pool /\ conn' = conn
                     /\ Cardinality(CheckedOut) = max_conn)]_vars
    /\ [][\A p \in Procs :
             (pc[p] = "getconn" /\ conn'[p] # NoConn)
                 => (conn'[p] \in pool /\ pool' = pool \ {conn'[p]})]_vars

\* with every connection checked out, one more caller has failed with PoolTimeout
C6_Witness ==
    \E p \in Procs :
        /\ error[p] = "PoolTimeout" /\ pc[p] = "raised"
        /\ pool = {}
        /\ Cardinality(CheckedOut) = max_conn

(***************************************************************************)
(* Properties of execute, as collect_current_weather calls it (under       *)
(* SpecWeather).                                                           *)
(***************************************************************************)
InExecute(p) == call[p].fn = "execute" /\ call[p].query = UpsertWeatherQuery

\* C11: execute runs its statement in its own transaction.  The transaction
\* is not open before the statement runs; when execute returns, the row of
\* the statement is committed in weather_data, the transaction is over and the
\* value returned is the statement's rowcount; when execute raises, no table
\* and no view has changed, the transaction is over and the caller has the
\* exception.
C11_ExecuteOwnTransaction ==
    /\ [](\A p \in Procs :
            (InExecute(p) /\ pc[p] = "exec") => txn[conn[p]] = EmptyTxn)
    /\ [][\A p \in Procs :
            (InExecute(p) /\ pc[p] = "finish" /\ pc'[p] = "done")
                => /\ fetched[p][1] \in weather_data'
                   /\ weather_data' = CommitWeather(txn[conn[p]])
                   /\ txn'[conn[p]] = EmptyTxn
                   /\ result'[p] = total_rows[p]
                   /\ result'[p] = 1]_vars
    /\ [][\A p \in Procs :
            (InExecute(p) /\ pc[p] \in {"exec", "finish"} /\ pc'[p] = "raised")
                => /\ tables' = tables
                   /\ txn'[conn[p]] = EmptyTxn
                   /\ error'[p] \in {"psycopg.Error", "Exception"}
                   /\ result'[p] = result[p]]_vars

\* one execute has returned after its commit, another has raised a database
\* error and left no row
C11_Witness ==
    \E p, q \in Procs :
        /\ op[p] = "collect_current_weather" /\ pc[p] = "done"
        /\ result[p] = 1 /\ added[p] # {} /\ added[p] = weather_data
        /\ op[q] = "collect_current_weather" /\ pc[q] = "raised"
        /\ call[q].fn = "execute" /\ error[q] = "psycopg.Error"
        /\ added[q] = {}

(***************************************************************************)
(* Properties of bulk_insert and execute_many (under SpecDb).              *)
(***************************************************************************)
InBulkInsert(p) == op[p] = "bulk_insert" /\ call[p].fn = "bulk_insert"

\* the rows of a list of values
RowsOf(values) == {values[k] : k \in DOMAIN values}

\* C12: bulk_insert is all-or-nothing.  The copy writes every row of the input
\* in the transaction and counts the input; the return commits all of them as
\* new rows of station_status and gives that count; a raise, while copying or
\* committing, leaves every table as it was and gives the caller an exception;
\* an empty input returns 0 without a step on the pool or a table.
C12_BulkInsertAllOrNothing ==
    /\ [][\A p \in Procs :
            (InBulkInsert(p) /\ pc[p] = "exec" /\ pc'[p] = "finish")
                => /\ txn'[conn[p]].status = RowsOf(Head(records[p]))
                   /\ total_rows'[p] = Len(Head(records[p]))
                   /\ tables' = tables]_vars
    /\ [][\A p \in Procs :
            (InBulkInsert(p) /\ pc[p] = "finish" /\ pc'[p] = "done")
                => /\ txn[conn[p]].status \subseteq station_status'
                   /\ txn[conn[p]].status \cap station_status = {}
                   /\ added'[p] = txn[conn[p]].status
                   /\ result'[p] = total_rows[p]
                   /\ result'[p] = Cardinality(added'[p])]_vars
    /\ [][\A p \in Procs :
            (InBulkInsert(p) /\ pc[p] \in {"exec", "finish"} /\ pc'[p] = "raised")
                => /\ tables' = tables
                   /\ txn'[conn[p]] = EmptyTxn
                   /\ error'[p] # ""]_vars
    /\ [][\A p \in Procs :
            (pc[p] = "idle" /\ op'[p] = "bulk_insert" /\ pc'[p] = "done")
                => /\ result'[p] = 0
                   /\ pool' = pool /\ txn' = txn /\ conn' = conn
                   /\ tables' = tables]_vars
    /\ [](\A p \in Procs :
            (op[p] = "bulk_insert" /\ pc[p] = "raised") => added[p] = {})

\* one bulk_insert has committed its whole input, one has raised and left
\* nothing, one has returned 0 for an empty input
C12_Witness ==
    \E p, q, r \in Procs :
        /\ op[p] = "bulk_insert" /\ pc[p] = "done"
        /\ result[p] = MaxBatch /\ Cardinality(added[p]) = MaxBatch
        /\ added[p] = station_status
        /\ op[q] = "bulk_insert" /\ pc[q] = "raised" /\ call[q].fn = "bulk_insert"
        /\ op[r] = "bulk_insert" /\ pc[r] = "done" /\ result[r] = 0

(***************************************************************************)
(* Properties of execute_many's batching (under SpecPages).                *)
(***************************************************************************)
InExecuteMany(p) == op[p] = "execute_many" /\ call[p].fn = "execute_many"

\* the params execute_many has still to execute, batched or not
Remaining(p) == batch[p] \o records[p]

\* C13: the batch size of execute_many is irrelevant.  Whatever page_size is,
\* the two loops execute the params in list order (as with page_size 1); each
\* step of the call executes the first of the remaining params, with the
\* statement's own conflict rule, adds its rowcount to the total and leaves
\* the rest; the call ends when none remains, and returns the total.
C13_PageSizeIrrelevant ==
    /\ [](\A p \in Procs :
            (InExecuteMany(p) /\ pc[p] = "getconn")
                => /\ ExecutionOrder(records[p], call[p].page_size) = records[p]
                   /\ ExecutionOrder(records[p], call[p].page_size)
                          = ExecutionOrder(records[p], 1))
    /\ [](\A p \in Procs :
            InExecuteMany(p) =>
                /\ pc[p] = "exec" => Remaining(p) # << >>
                /\ pc[p] = "finish" => Remaining(p) = << >>)
    /\ [][\A p \in Procs :
            (/\ InExecuteMany(p) /\ pc[p] = "exec" /\ pc'[p] # "raised"
             /\ \/ Remaining(p)' # Remaining(p)
                \/ total_rows'[p] # total_rows[p]
                \/ txn'[conn[p]] # txn[conn[p]]
                \/ pc'[p] # pc[p])
                => LET r == Run(call[p].query, txn[conn[p]], Head(Remaining(p)), now')
                   IN /\ Remaining(p)' = Tail(Remaining(p))
                      /\ txn'[conn[p]] = r.txn
                      /\ total_rows'[p] = total_rows[p] + r.rowcount]_vars
    /\ [][\A p \in Procs :
            (InExecuteMany(p) /\ pc[p] = "finish" /\ pc'[p] = "done")
                => /\ result'[p] = total_rows[p]
                   /\ result'[p] = Cardinality(added'[p])
                   /\ station_status' = station_status \cup txn[conn[p]].status]_vars

\* two calls with different page sizes are at the same remaining params, one
\* between two batches, the other inside a batch
C13_Witness ==
    \E p, q \in Procs :
        /\ InExecuteMany(p) /\ pc[p] = "exec" /\ call[p].page_size = 1
        /\ batch[p] = << >> /\ Len(records[p]) = 1 /\ total_rows[p] = 1
        /\ InExecuteMany(q) /\ pc[q] = "exec" /\ call[q].page_size > 1
        /\ Len(batch[q]) = 1 /\ records[q] = << >>
        /\ Remaining(p)[1].station_id = Remaining(q)[1].station_id

(***************************************************************************)
(* Properties of the four operations on a failing fetch (under SpecOps).   *)
(***************************************************************************)
FetchErrors == {"RequestException", "KeyError"}

\* the operation of p was left by the exception of its API fetch
FetchFailed(p) == pc[p] = "raised" /\ error[p] \in FetchErrors

\* C14: no internal retry.  An operation whose API fetch fails is over with
\* that exception: the failing step, taken at the fetch, changes no table, no
\* view, no transaction and nothing in the pool; the operation has entered no
\* writing or refreshing database call, has added no row, holds no connection,
\* has returned nothing; and it takes no step afterwards (no second fetch).
C14_NoInternalRetry ==
    /\ [](\A p \in Procs :
            /\ error[p] \in FetchErrors => pc[p] = "raised"
            /\ FetchFailed(p) =>
                   /\ op[p] \in {"update_station_information", "collect_station_status",
                                 "collect_current_weather", "backfill_historical_weather"}
                   /\ call[p] = NoCall
                   /\ added[p] = {} /\ fetched[p] = << >> /\ records[p] = << >>
                   /\ conn[p] = NoConn /\ result[p] = 0 /\ rows_inserted[p] = 0
                   /\ collection_time[p] = 0)
    /\ [][\A p \in Procs :
            (~FetchFailed(p) /\ FetchFailed(p)')
                => /\ pc[p] = "fetch"
                   /\ tables' = tables /\ txn' = txn /\ pool' = pool]_vars
    /\ [][\A p \in Procs :
            FetchFailed(p)
                => /\ pc'[p] = pc[p] /\ error'[p] = error[p] /\ fetched'[p] = fetched[p]
                   /\ call'[p] = call[p] /\ conn'[p] = conn[p]
                   /\ added'[p] = added[p]]_vars
    /\ [](\A p \in MainThread :
            FetchFailed(p) =>
                /\ station_information = {} /\ weather_data = {}
                /\ latest_station_status = {}
                /\ pool = Conns /\ \A c \in Conns : txn[c] = EmptyTxn)

\* the fetch of a backfill has failed after its range was resolved
C14_Witness ==
    \E p \in Procs :
        /\ FetchFailed(p)
        /\ op[p] = "backfill_historical_weather"
        /\ start_date[p] # NoDate
        /\ station_status # {}
        /\ weather_data = {}

(***************************************************************************)
(* Properties of overlapping status collections (under Spec).              *)
(***************************************************************************)
\* C15: concurrent retries are safe without application locking.  Under every
\* interleaving of two collect_station_status runs, station_status holds at
\* most one row per (time, station_id); and once both have returned, the rows
\* they added are disjoint, make up the table, and are as many as the two
\* returned counts together.
C15_ConcurrentRetriesSafe ==
    /\ \A r, s \in station_status : SameStatusKey(r, s) => r = s
    /\ \A p, q \in Invokers :
          (p # q /\ Collects(p) /\ Collects(q) /\ pc[p] = "done" /\ pc[q] = "done")
              => /\ added[p] \cap added[q] = {}
                 /\ station_status = added[p] \cup added[q]
                 /\ result[p] + result[q] = Cardinality(station_status)

\* two runs of one tick overlapped: the second built its records before the
\* first had committed, and every insert of it found the key taken
C15_Witness ==
    \E p, q \in Invokers :
        /\ p # q /\ Collects(p) /\ Collects(q)
        /\ pc[p] = "done" /\ result[p] = MaxBatch /\ added[p] = station_status
        /\ collection_time[p] = collection_time[q]
        /\ already_recorded[p] = "new" /\ already_recorded[q] = "new"
        /\ pc[q] = "finish" /\ call[q].query = InsertStatusQuery
        /\ total_rows[q] = 0 /\ txn[conn[q]].status = {}

(***************************************************************************)
(* The parsers of the two clients.                                         *)
(***************************************************************************)
\* the places in the scanned part of the list whose element counts for the
\* mechanical bikes, and for the e-bikes
MechanicalElements == {k \in 1 .. Len(scanned) : scanned[k].mechanical # None}

EbikeElements ==
    {k \in 1 .. Len(scanned) : scanned[k].ebike # None /\ scanned[k].mechanical = None}

Last(places) == CHOOSE k \in places : \A other \in places : other <= k

\* C16: at every point of the scan of a station's num_bikes_available_types
\* list, and so when the station's record is built, the mechanical count is the
\* value of the last scanned element carrying "mechanical", the e-bike count is
\* the value of the last scanned element carrying "ebike" and no "mechanical",
\* and a count without such an element is 0; nothing is added up.
C16_BikeTypeSplit ==
    parser \in {"bike_types", "returned"} =>
        /\ num_mechanical = IF MechanicalElements = {} THEN 0
                            ELSE scanned[Last(MechanicalElements)].mechanical[1]
        /\ num_ebike = IF EbikeElements = {} THEN 0
                       ELSE scanned[Last(EbikeElements)].ebike[1]

\* a station's record is built after two elements with different mechanical
\* counts and an element that carries both fields were scanned
C16_Witness ==
    /\ parser = "returned"
    /\ bike_types = << >>
    /\ \E k, l \in MechanicalElements :
         /\ k < l
         /\ scanned[k].mechanical # scanned[l].mechanical
         /\ scanned[l].ebike # None
    /\ EbikeElements # {}
    /\ num_mechanical = scanned[Last(MechanicalElements)].mechanical[1]

\* the field of a weather record that holds the measurement of an array
Field(record, array) ==
    CASE array = "apparent_temperature" -> record.apparent_temperature
      [] array = "precipitation" -> record.precipitation
      [] array = "rain" -> record.rain
      [] array = "snowfall" -> record.snowfall
      [] array = "wind_speed_10m" -> record.wind_speed
      [] array = "wind_direction_10m" -> record.wind_direction
      [] array = "wind_gusts_10m" -> record.wind_gusts
      [] array = "pressure_msl" -> record.pressure
      [] array = "relative_humidity_2m" -> record.humidity
      [] array = "cloud_cover" -> record.cloud_cover
      [] array = "weather_code" -> record.weather_code

\* the number of entries of the time array
Hours == Len(hourly["time"][1])

\* the value a record holds for an entry of an array: the entry itself, and 0
\* for a null amount of precipitation, rain or snowfall
Held(array, entry) ==
    IF array \in ZeroDefaulted THEN (IF entry = None THEN 0 ELSE entry[1]) ELSE entry

Absent == {array \in OptionalArrays : hourly[array] = None}

\* C18: for a time array of one entry or more and an hourly block without
\* some optional array, fetch_historical_weather does not fail, and the records
\* it returns are as many as the entries of the time array, each with the
\* field of the absent array null, or 0 for precipitation, rain and snowfall,
\* which is what fetch_current_weather gives an absent field.
C18_MissingArrayDefaults ==
    Hours >= 1 /\ Absent # {} =>
        /\ parser # "IndexError"
        /\ parser = "returned" =>
             /\ Len(weather_records) = Hours
             /\ \A k \in 1 .. Len(weather_records) : \A array \in Absent :
                  Field(weather_records[k], array) = CurrentDefault(array)

(***************************************************************************)
(* get_collection_stats and the range of the backfill.                     *)
(***************************************************************************)
\* p is about to return from get_collection_stats: its query ran in the
\* transaction its connection still holds
StatsReturns(p) ==
    /\ pc[p] = "finish"
    /\ op[p] = "get_collection_stats"
    /\ pc'[p] = "done"

\* C19: when get_collection_stats returns and station_status holds no row of
\* the 24 hours before the time of its query, what it returns is the empty
\* dictionary.
C19_EmptyStats ==
    [][\A p \in Procs :
         StatsReturns(p) /\ RecentStatus(station_status, txn[conn[p]].started) = {}
             => result'[p] = EmptyDict]_vars

\* C20: a backfill called without a start date takes as start of its range
\* the earliest date of station_status, and today's date when station_status
\* holds no rows; it then goes on to the fetch and does not fail while it
\* resolves the range.
C20_BackfillStartDefault ==
    [][\A p \in Procs :
         op[p] = "backfill_historical_weather" =>
             /\ pc[p] = "finish" /\ call[p].query = MinDateQuery /\ pc'[p] = "dates"
                    => start_date'[p] = IF station_status = {} THEN now
                                        ELSE Min({r.time : r \in station_status})
             /\ pc[p] = "dates" => pc'[p] \in {"dates", "fetch"}]_vars

(***************************************************************************)
(* The entry points and the reference data.                                *)
(***************************************************************************)
\* every station of station_status is a station of station_information
Referenced ==
    \A r \in station_status : \E s \in station_information : s.station_id = r.station_id

\* the run of the station entry point is complete and no step of it raised
Successful(p) ==
    /\ pc[p] = "exited"
    /\ op[p] = "get_collection_stats"
    /\ error[p] = ""

\* the rows the run added to station_status
StatusAdded(p) == {r \in added[p] : r \in station_status /\ r.time = collection_time[p]}

\* C21 as stated: after a complete, successful run of the station entry point
\* on tables in which every station of station_status is in
\* station_information (those any sequence of such runs leaves), every
\* station_id of station_status is in station_information.
C21_ReferentialByOrdering ==
    \A p \in MainThread : Successful(p) => Referenced

\* C21 amended: the same, provided the status feed of the run added rows only
\* for stations that the information feed of the run named; the code checks
\* no station_id against station_information.
C21_ReferentialForKnownStations ==
    \A p \in MainThread :
        Successful(p) /\ {r.station_id : r \in StatusAdded(p)} \subseteq reference[p]
            => Referenced

\* a successful run has added the status of station 2, which its information
\* feed named and which station_information did not hold before
C21_Witness ==
    \E p \in MainThread :
        /\ Successful(p)
        /\ \E r \in StatusAdded(p) : r.station_id = 2
        /\ 2 \in reference[p]

\* p returns from update_station_information in this step
InfoReturns(p) ==
    /\ op[p] = "update_station_information"
    /\ pc[p] # "done"
    /\ pc'[p] = "done"

\* C22: update_station_information returns the number of records the API
\* gave, whatever its upserts did to the rows (new row, other values, same
\* values); with an empty list it returns 0 without a statement, so that no
\* table, transaction or connection is touched; a list that is not empty goes
\* to the database.
C22_ReturnsCountFetched ==
    [][\A p \in Procs :
         /\ InfoReturns(p) /\ pc[p] = "finish"
                => /\ fetched[p] # << >>
                   /\ result'[p] = Len(fetched[p])
         /\ InfoReturns(p) /\ pc[p] # "finish"
                => /\ pc[p] = "fetch"
                   /\ result'[p] = 0
                   /\ UNCHANGED << tables, pool, txn, conn >>
         /\ op[p] = "update_station_information" /\ pc[p] = "fetch" /\ pc'[p] = "getconn"
                => fetched'[p] # << >>]_vars

\* one invocation has returned 2 for two new rows, another has returned 2 for
\* a record that was there with other values and one that was there with the
\* same values
C22_Witness ==
    \E p, q \in Procs :
        /\ p # q
        /\ op[p] = "update_station_information" /\ pc[p] = "done"
        /\ op[q] = "update_station_information" /\ pc[q] = "done"
        /\ result[p] = 2 /\ Cardinality(added[p]) = 2
        /\ result[q] = 2 /\ Cardinality(added[q]) = 1
        /\ Cardinality(station_information) = 2
        /\ added[q] \subseteq station_information

\* the state of the database and of the pool
DatabaseState == << tables, pool, txn, conn >>

\* C27: a run of either entry point that has ended, after its last step or
\* after a step that raised, has closed the pool.  After a step has raised, the
\* run starts no other step: it stays at the failed operation until it ends,
\* and a run whose update_station_information failed has never begun to
\* collect status.  Once the pool is closed the run holds no connection and
\* nothing happens to the database or the pool any more.
C27_EntryPointCleanup ==
    /\ [](\A p \in MainThread :
            /\ pc[p] = "exited" => closed
            /\ closed => pc[p] = "exited" /\ conn[p] = NoConn
            /\ pc[p] \in {"raised", "exited"} /\ error[p] # ""
               /\ op[p] = "update_station_information"
                   => collection_time[p] = 0 /\ rows_inserted[p] = 0)
    /\ [][\A p \in MainThread :
            /\ pc[p] = "raised" => pc'[p] \in {"raised", "exited"} /\ op'[p] = op[p]
            /\ pc[p] = "exited" => pc'[p] = "exited" /\ op'[p] = op[p]
            /\ closed => closed' /\ DatabaseState' = DatabaseState]_vars

\* update_station_information has raised in the database, the run has ended
\* and the pool is closed
C27_Witness ==
    \E p \in MainThread :
        /\ pc[p] = "exited"
        /\ op[p] = "update_station_information"
        /\ error[p] = "psycopg.Error"
        /\ closed

(***************************************************************************)
(* Transactions of the DatabaseManager calls.                              *)
(***************************************************************************)
\* p is inside fetch_one or fetch_all
InFetch(p) ==
    /\ call[p].fn \in {"fetch_one", "fetch_all"}
    /\ pc[p] \in {"getconn", "exec", "finish"}

\* p puts its connection back in this step
PutsBack(p) == conn[p] # NoConn /\ conn'[p] = NoConn

\* C23: no step of fetch_one or fetch_all, whether the call returns or raises,
\* changes the committed rows of a table or the view, and the call issues no
\* commit on its connection.
C23_FetchReadOnly ==
    [][\A p \in Procs :
         InFetch(p) /\ pc'[p] # pc[p]
             => /\ UNCHANGED tables
                /\ PutsBack(p) => ended'[conn[p]] # "commit"]_vars

\* a fetch_one has returned its row, a fetch_all has raised, and a connection
\* went back without a commit or a rollback of this code
C23_Witness ==
    \E p, q \in Procs :
        /\ op[p] = "fetch_one" /\ pc[p] = "done" /\ result[p] # << >>
        /\ op[q] = "fetch_all" /\ pc[q] = "raised"
        /\ \E c \in Conns : ended[c] = "nothing"

\* C25: execute_many applies the records of a call in one transaction: the
\* committed tables change only in the step that commits a call whose params
\* are all executed, and when a call raises, after any number of records and
\* batches, the tables stay as they are, the writes of its transaction are
\* gone and the exception is the caller's.
C25_ExecuteManyAtomic ==
    [][/\ tables' # tables
           => \E p \in Procs :
                 /\ pc[p] = "finish" /\ pc'[p] = "done"
                 /\ call[p].commit
                 /\ InExecuteMany(p) => Remaining(p) = << >>
       /\ \A p \in Procs :
            InExecuteMany(p) /\ pc[p] \in {"exec", "finish"} /\ pc'[p] = "raised"
                => /\ UNCHANGED tables
                   /\ txn'[conn[p]] = EmptyTxn
                   /\ error'[p] # ""]_vars

\* a call with batches of one record has executed its first batch, which
\* wrote a row in its transaction, and has a record left to execute, while
\* another call has raised and no row is committed
C25_Witness ==
    \E p, q \in Procs :
        /\ InExecuteMany(p) /\ pc[p] = "exec" /\ call[p].page_size = 1
        /\ txn[conn[p]].status # {} /\ Remaining(p) # << >>
        /\ InExecuteMany(q) /\ pc[q] = "raised" /\ error[q] = "psycopg.Error"
        /\ station_status = {}

\* C28: whenever a call of the DatabaseManager puts its connection back, on
\* its return or on an exception, this code has issued a commit or a rollback
\* on the connection before, and the connection is idle without an open
\* transaction or writes for the next borrower.
C28_EndedBeforePutBack ==
    [][\A p \in Procs :
         PutsBack(p)
             => /\ ended'[conn[p]] \in {"commit", "rollback"}
                /\ conn[p] \in pool'
                /\ txn'[conn[p]] = EmptyTxn]_vars

(***************************************************************************)
(* The two write policies of the weather collector.                        *)
(***************************************************************************)
\* p returns from backfill_historical_weather in this step
BackfillReturns(p) ==
    /\ op[p] = "backfill_historical_weather"
    /\ pc[p] # "done"
    /\ pc'[p] = "done"

\* C24: a backfill whose fetch gave no record returns 0 without a statement,
\* so that weather_data, the transactions and the pool stay as they are; a
\* backfill that wrote returns the number of rows its commit added to
\* weather_data, and every one of them is of an hour that had no row.
C24_BackfillCount ==
    [][\A p \in Procs :
         /\ BackfillReturns(p) /\ pc[p] # "finish"
                => /\ pc[p] = "fetch"
                   /\ result'[p] = 0
                   /\ UNCHANGED << tables, pool, txn, conn >>
         /\ BackfillReturns(p) /\ pc[p] = "finish"
                => /\ result'[p] = Cardinality(weather_data' \ weather_data)
                   /\ \A r \in weather_data' \ weather_data :
                          \A s \in weather_data : s.time # r.time]_vars

\* a backfill has returned 2 for two new hours, and another one is about to
\* return 0 for a series of hours that all had a row
C24_Witness ==
    \E p, q \in Procs :
        /\ op[q] = "backfill_historical_weather" /\ pc[q] = "done"
        /\ result[q] = 2 /\ Cardinality(added[q]) = 2
        /\ op[p] = "backfill_historical_weather" /\ pc[p] = "finish"
        /\ call[p].query = InsertWeatherQuery
        /\ total_rows[p] = 0

\* the rows of weather_data for observation time T
RowsAt(T) == {r \in weather_data : r.time = T}

\* the backfills that have returned
Backfilled == {p \in Procs : op[p] = "backfill_historical_weather" /\ pc[p] = "done"}

\* C26: weather_data holds at most one row per observation time T.  Once a
\* collect_current_weather call has committed T, the row of T is the snapshot
\* of the last such call.  While none has, the row of T is the record of the
\* first backfill that wrote T: what a backfill added for T stays the row, and
\* no second backfill has added a row for T.  The commit of a backfill leaves
\* every row that is there, those of collect_current_weather included, as it is.
C26_WeatherPolicies ==
    /\ [](\A T \in Times :
            /\ Cardinality(RowsAt(T)) <= 1
            /\ last_current[T] # {} => RowsAt(T) = last_current[T]
            /\ last_current[T] = {} =>
                 /\ \A p \in Backfilled : \A r \in added[p] : r.time = T => r \in RowsAt(T)
                 /\ \A p, q \in Backfilled :
                      (\E r \in added[p], s \in added[q] : r.time = T /\ s.time = T)
                          => p = q)
    /\ [][\A p \in Procs :
            op[p] = "backfill_historical_weather" /\ pc[p] = "finish" /\ pc'[p] = "done"
                => weather_data \subseteq weather_data']_vars

\* a backfill has added the row of an hour that no collect_current_weather
\* call wrote, and a second backfill, whose series held records of hours that
\* all have a row, is about to commit without a row of its own
C26_Witness ==
    \E p \in Backfilled, q \in Procs : \E T \in Times :
        /\ added[p] = {WeatherData(T, 3)} /\ result[p] = 1
        /\ RowsAt(T) = {WeatherData(T, 3)}
        /\ last_current[T] = {}
        /\ Cardinality(weather_data) = 1
        /\ op[q] = "backfill_historical_weather" /\ pc[q] = "finish"
        /\ call[q].query = InsertWeatherQuery
        /\ total_rows[q] = 0 /\ txn[conn[q]].weather = {}

====
